---- MODULE Spec2Model ----
(***************************************************************************)
(* Tool handlers of the GitHub MCP server (src/src/index.ts).  Each        *)
(* invocation of a tool is an async handler: it runs synchronously up to   *)
(* an await of octokit.request, is suspended there, and continues when the *)
(* forge answers with data or with an error carrying an HTTP status.  One  *)
(* action models one such synchronous stretch of a handler.                *)
(***************************************************************************)
EXTENDS Integers, Sequences, FiniteSets, TLC

VARIABLES pc, tool, args, locals, log, pending, env

vars == <<pc, tool, args, locals, log, pending, env>>

(* ------------------------------ bounds --------------------------------- *)

\* largest number of input files of create-repository
MaxFiles == 2

(* ------------------------- invocations, inputs ------------------------- *)

\* slots for tool invocations; Spec runs the handlers of one invocation
Invocations == {1, 2}
Serial == {1}

\* an optional argument: <<>> when absent (undefined / null), <<v>> when present
Absent == <<>>
Some(v) == <<v>>
Opt(S) == {Absent} \cup {Some(v) : v \in S}

\* JavaScript truthiness of an optional string: undefined and "" are falsy
TruthyStr(o) == o # Absent /\ o[1] # ""

\* JavaScript truthiness of an optional boolean: undefined, null, false are falsy
TruthyBool(o) == o # Absent /\ o[1] = TRUE

\* HTTP statuses carried by a failed octokit.request
Statuses == {401, 403, 404, 500}

ErrMessage(s) ==
    CASE s = 401 -> "Bad credentials"
      [] s = 403 -> "Forbidden"
      [] s = 404 -> "Not Found"
      [] OTHER   -> "Server Error"

Errors == {[status |-> s, message |-> ErrMessage(s)] : s \in Statuses}

PrNumbers == {1}
FileNames == <<"a.txt", "b.txt", "c.txt", "d.txt">>
FileLists == {[k \in 1..n |-> FileNames[k]] : n \in 0..MaxFiles}

(* ------------------------------ envelopes ------------------------------ *)

\* { content: [{ type: "text", text }] }  -- no isError property
Envelope(text) == [content |-> <<[type |-> "text", text |-> text]>>]

\* { content: [{ type: "text", text }], isError: true }
ErrorEnvelope(text) ==
    [content |-> <<[type |-> "text", text |-> text]>>, isError |-> TRUE]

Flagged(e) == "isError" \in DOMAIN e /\ e.isError = TRUE

(* ------------------------- the remote call log ------------------------- *)

IssueEv(ep, n, params) == [ev |-> "issue", ep |-> ep, n |-> n, params |-> params]
OkEv(ep, n) == [ev |-> "ok", ep |-> ep, n |-> n]
ErrEv(ep, n, err) == [ev |-> "err", ep |-> ep, n |-> n, status |-> err.status]

GetPulls     == "GET /repos/{owner}/{repo}/pulls"
GetPull      == "GET /repos/{owner}/{repo}/pulls/{pull_number}"
GetPullFiles == "GET /repos/{owner}/{repo}/pulls/{pull_number}/files"
PostComment  == "POST /repos/{owner}/{repo}/issues/{issue_number}/comments"
PostReviewers == "POST /repos/{owner}/{repo}/pulls/{pull_number}/requested_reviewers"
PutMerge     == "PUT /repos/{owner}/{repo}/pulls/{pull_number}/merge"
PatchIssue   == "PATCH /repos/{owner}/{repo}/issues/{issue_number}"
PostUserRepos == "POST /user/repos"
PostOrgRepos == "POST /orgs/{org}/repos"
GetRef       == "GET /repos/{owner}/{repo}/git/ref/{ref}"
PostBlobs    == "POST /repos/{owner}/{repo}/git/blobs"
GetTree      == "GET /repos/{owner}/{repo}/git/trees/{tree_sha}"
PostTrees    == "POST /repos/{owner}/{repo}/git/trees"
PostCommits  == "POST /repos/{owner}/{repo}/git/commits"
PatchRef     == "PATCH /repos/{owner}/{repo}/git/refs/{ref}"
GetRepo      == "GET /repos/{owner}/{repo}"
DeleteRepo   == "DELETE /repos/{owner}/{repo}"

(* --------------------------- the tool surface -------------------------- *)

\* faulty variant: the registrations of a second copy of the server follow
\* those of the first in the same registry
RegistrationsTwice ==
    <<"discuss-pr", "list-prs", "comment-on-pr", "request-reviewers", "merge-pr",
      "summarize-pr", "close-pr", "create-repository", "delete-repository",
      "discuss-pr", "list-prs", "comment-on-pr">>

\* the names passed to server.tool(name, shape, handler), in source order
Registrations ==
    <<"discuss-pr", "list-prs", "comment-on-pr", "request-reviewers", "merge-pr",
      "summarize-pr", "close-pr", "create-repository", "delete-repository">>

\* the registrations that a tool name dispatches to
HandlersOf(name) == {k \in 1..Len(Registrations) : Registrations[k] = name}

\* the commands that the README lists under "Available Commands"
ReadmeCommands ==
    {"list-prs", "discuss-pr", "summarize-pr", "comment-on-pr", "request-reviewers",
     "merge-pr", "close-pr", "check-ci-status"}

(* ---------------------------- state changes ---------------------------- *)

\* the handler registered under name t starts, for invocation i, with arguments a
Begin(i, t, a) ==
    /\ pc[i] = "idle"
    /\ HandlersOf(t) # {}
    /\ tool' = [tool EXCEPT ![i] = t]
    /\ args' = [args EXCEPT ![i] = a]
    /\ UNCHANGED locals

\* the handler returns envelope e after the events evs
Return(i, evs, e) ==
    /\ pc' = [pc EXCEPT ![i] = "done"]
    /\ log' = [log EXCEPT ![i] = log[i] \o evs]
    /\ env' = [env EXCEPT ![i] = Some(e)]

\* the handler, after the events evs, awaits the call it has just issued
Await(i, evs, at) ==
    /\ pc' = [pc EXCEPT ![i] = at]
    /\ log' = [log EXCEPT ![i] = log[i] \o evs]
    /\ env' = env

\* the call <<ep, n>> the handler awaits is answered
Answered(i, at, ep, n) ==
    /\ pc[i] = at
    /\ <<ep, n>> \in pending[i]

\* the dispatcher is asked for a name that no registration carries: the
\* invocation is rejected and no handler runs
RejectUnknownTool(i) ==
    \E name \in ReadmeCommands :
        /\ pc[i] = "idle"
        /\ HandlersOf(name) = {}
        /\ pc' = [pc EXCEPT ![i] = "rejected"]
        /\ tool' = [tool EXCEPT ![i] = name]
        /\ UNCHANGED <<args, locals, log, pending, env>>

Init ==
    /\ pc = [i \in Invocations |-> "idle"]
    /\ tool = [i \in Invocations |-> ""]
    /\ args = [i \in Invocations |-> [none |-> TRUE]]
    /\ locals = [i \in Invocations |-> [none |-> TRUE]]
    /\ log = [i \in Invocations |-> <<>>]
    /\ pending = [i \in Invocations |-> {}]
    /\ env = [i \in Invocations |-> Absent]

(* ------------------------- strings as characters ---------------------- *)

\* a text of n characters: x y z x y z ...
Alphabet == <<"x", "y", "z">>
Chars(n) == [k \in 1..n |-> Alphabet[((k - 1) % Len(Alphabet)) + 1]]

\* s.substring(0, cap)
Substring0(s, cap) == SubSeq(s, 1, IF Len(s) < cap THEN Len(s) ELSE cap)

\* faulty variant: the ellipsis is appended from the cap on, not above it
PreviewInclusive(s, cap) ==
    Substring0(s, cap) \o (IF Len(s) >= cap THEN <<"...">> ELSE <<>>)

\* s.substring(0, cap) followed by (s.length > cap ? '...' : '')
Preview(s, cap) == Substring0(s, cap) \o (IF Len(s) > cap THEN <<"...">> ELSE <<>>)

PreviewCap == 50
ExcerptCap == 300

(* ------------------------- list-prs, discuss-pr ------------------------ *)

\* one element of the response of GET pulls; user may be null
Pull(n, u) ==
    [number |-> n, title |-> "T", html_url |-> "U", state |-> "open",
     created_at |-> "D", user |-> u, body |-> Absent]

PullLists == {<<>>, <<Pull(2, Some([login |-> "alice"]))>>,
              <<Pull(2, Some([login |-> "alice"])), Pull(1, Absent)>>}

\* pr.user?.login
UserLogin(pr) == IF pr.user = Absent THEN Absent ELSE Some(pr.user[1].login)

\* response.data.map((pr) => ({ number, title, url, state, created_at, user }))
PrSummaries(data) ==
    [k \in 1..Len(data) |->
        [number |-> data[k].number, title |-> data[k].title, url |-> data[k].html_url,
         state |-> data[k].state, created_at |-> data[k].created_at,
         user |-> UserLogin(data[k])]]

\* JSON.stringify(v, null, 2): one text per value, different values give different texts
Json(v) == [json |-> v]

\* state.charAt(0).toUpperCase() + state.slice(1)
Capitalize(state) ==
    CASE state = "open" -> "Open"
      [] state = "closed" -> "Closed"
      [] state = "all" -> "All"

ListPrsArgs == [owner : {"o"}, repo : {"r"}, state : {"open", "closed", "all"}]

ListParams(a, state) == [owner |-> a.owner, repo |-> a.repo, state |-> state]

ListPrsStart(i) ==
    \E a \in ListPrsArgs :
        /\ Begin(i, "list-prs", a)
        /\ Await(i, <<IssueEv(GetPulls, 0, ListParams(a, a.state))>>, "list:fetch")
        /\ pending' = [pending EXCEPT ![i] = {<<GetPulls, 0>>}]

\* A text is the concatenation of its parts.  The literals of the texts of
\* list-prs and of discuss-pr are cut at the same places ("Open" + " PRs for ",
\* "Error fetching PR" + "s" + ": "), so that two of these texts are the same
\* string exactly when they are the same sequence of parts.

\* Capitalized state + " PRs for " + owner + "/" + repo + ":\n\n" + JSON.stringify(prs, null, 2)
ListPrsText(a, data) ==
    <<Capitalize(a.state), " PRs for ", a.owner, "/", a.repo, ":\n\n", Json(PrSummaries(data))>>

\* "Error fetching PRs: " + error.message
ListPrsCatch(err) == ErrorEnvelope(<<"Error fetching PR", "s", ": ", err.message>>)

ListPrsReturns(i) ==
    /\ Answered(i, "list:fetch", GetPulls, 0)
    /\ \/ \E data \in PullLists :
             /\ Return(i, <<OkEv(GetPulls, 0)>>, Envelope(ListPrsText(args[i], data)))
             /\ locals' = [locals EXCEPT ![i] = [response |-> [data |-> data]]]
       \/ \E err \in Errors :
             /\ Return(i, <<ErrEv(GetPulls, 0, err)>>, ListPrsCatch(err))
             /\ UNCHANGED locals
    /\ pending' = [pending EXCEPT ![i] = {}]
    /\ UNCHANGED <<tool, args>>

DiscussPrArgs ==
    [owner : {"o"}, repo : {"r"}, prNumber : Opt({0, 1}), query : Opt({"", "q"})]

\* response.data of GET pull, as discuss-pr and summarize-pr read it
PullDetails ==
    {[number |-> 1, title |-> "T", body |-> b, html_url |-> "U", state |-> "open",
      created_at |-> "D", user |-> Some([login |-> "alice"])] : b \in Opt({"", "B"})}

\* pr.body || "No description provided"
BodyOrDefault(pr) == IF TruthyStr(pr.body) THEN pr.body[1] ELSE "No description provided"

PrDetails(pr) ==
    [number |-> pr.number, title |-> pr.title, body |-> BodyOrDefault(pr),
     url |-> pr.html_url, state |-> pr.state, created_at |-> pr.created_at,
     user |-> UserLogin(pr)]

\* "Error fetching PR " + (prNumber ? '#' + prNumber : 's') + ": " + error.message
DiscussCatch(a, err) ==
    ErrorEnvelope(<<"Error fetching PR", " ">>
                  \o (IF a.prNumber # Absent /\ a.prNumber[1] # 0
                      THEN <<"#", ToString(a.prNumber[1])>> ELSE <<"s">>)
                  \o <<": ", err.message>>)

\* faulty variant: the query is sent to the forge with the fetch
DiscussPrStartSendsQuery(i) ==
    \E a \in DiscussPrArgs :
        /\ Begin(i, "discuss-pr", a)
        /\ IF a.prNumber = Absent
           THEN /\ Await(i, <<IssueEv(GetPulls, 0, ListParams(a, "open"))>>, "discuss:list")
                /\ pending' = [pending EXCEPT ![i] = {<<GetPulls, 0>>}]
           ELSE /\ Await(i, <<IssueEv(GetPull, 0,
                                      [owner |-> a.owner, repo |-> a.repo,
                                       pull_number |-> a.prNumber[1], q |-> a.query])>>,
                         "discuss:fetch")
                /\ pending' = [pending EXCEPT ![i] = {<<GetPull, 0>>}]

DiscussPrStart(i) ==
    \E a \in DiscussPrArgs :
        /\ Begin(i, "discuss-pr", a)
        /\ IF a.prNumber = Absent
           THEN /\ Await(i, <<IssueEv(GetPulls, 0, ListParams(a, "open"))>>, "discuss:list")
                /\ pending' = [pending EXCEPT ![i] = {<<GetPulls, 0>>}]
           ELSE /\ Await(i, <<IssueEv(GetPull, 0,
                                      [owner |-> a.owner, repo |-> a.repo,
                                       pull_number |-> a.prNumber[1]])>>, "discuss:fetch")
                /\ pending' = [pending EXCEPT ![i] = {<<GetPull, 0>>}]

\* "Open PRs for " + owner + "/" + repo + ":\n\n" + JSON.stringify(prs, null, 2)
DiscussListText(a, data) ==
    <<"Open", " PRs for ", a.owner, "/", a.repo, ":\n\n", Json(PrSummaries(data))>>

DiscussPrListReturns(i) ==
    /\ Answered(i, "discuss:list", GetPulls, 0)
    /\ \/ \E data \in PullLists :
             /\ Return(i, <<OkEv(GetPulls, 0)>>, Envelope(DiscussListText(args[i], data)))
             /\ locals' = [locals EXCEPT ![i] = [response |-> [data |-> data]]]
       \/ \E err \in Errors :
             /\ Return(i, <<ErrEv(GetPulls, 0, err)>>, DiscussCatch(args[i], err))
             /\ UNCHANGED locals
    /\ pending' = [pending EXCEPT ![i] = {}]
    /\ UNCHANGED <<tool, args>>

\* the detail text, with the query first when a query is given
DiscussDetailText(a, pr) ==
    IF TruthyStr(a.query)
    THEN <<"Discussion query for PR #", ToString(a.prNumber[1]), ": ", a.query[1],
           "\n\nDetails:\n", Json(PrDetails(pr))>>
    ELSE <<"Details for PR #", ToString(a.prNumber[1]), ":\n", Json(PrDetails(pr))>>

DiscussPrFetchReturns(i) ==
    /\ Answered(i, "discuss:fetch", GetPull, 0)
    /\ \/ \E pr \in PullDetails :
             /\ Return(i, <<OkEv(GetPull, 0)>>, Envelope(DiscussDetailText(args[i], pr)))
             /\ locals' = [locals EXCEPT ![i] = [response |-> [data |-> pr]]]
       \/ \E err \in Errors :
             /\ Return(i, <<ErrEv(GetPull, 0, err)>>, DiscussCatch(args[i], err))
             /\ UNCHANGED locals
    /\ pending' = [pending EXCEPT ![i] = {}]
    /\ UNCHANGED <<tool, args>>

(* -------------------- comment-on-pr, request-reviewers ----------------- *)

CommentLengths == {0, 40, 50, 51, 60}

CommentOnPrArgs ==
    [owner : {"o"}, repo : {"r"}, prNumber : PrNumbers,
     comment : {Chars(n) : n \in CommentLengths}]

CommentOnPrStart(i) ==
    \E a \in CommentOnPrArgs :
        /\ Begin(i, "comment-on-pr", a)
        /\ Await(i, <<IssueEv(PostComment, 0,
                              [owner |-> a.owner, repo |-> a.repo,
                               issue_number |-> a.prNumber, body |-> a.comment])>>,
                 "comment:post")
        /\ pending' = [pending EXCEPT ![i] = {<<PostComment, 0>>}]

\* faulty variant: a failed comment call is issued again
CommentOnPrReturnsRetry(i) ==
    /\ Answered(i, "comment:post", PostComment, 0)
    /\ \/ Return(i, <<OkEv(PostComment, 0)>>,
                 Envelope(<<"Comment posted on PR #", ToString(args[i].prNumber), ": \"">>
                          \o Preview(args[i].comment, PreviewCap) \o <<"\"">>))
          /\ pending' = [pending EXCEPT ![i] = {}]
       \/ \E err \in Errors :
             /\ Await(i, <<ErrEv(PostComment, 0, err),
                           IssueEv(PostComment, 0,
                                   [owner |-> args[i].owner, repo |-> args[i].repo,
                                    issue_number |-> args[i].prNumber,
                                    body |-> args[i].comment])>>, "comment:post")
             /\ UNCHANGED pending
    /\ UNCHANGED <<tool, args, locals>>

CommentOnPrReturns(i) ==
    /\ Answered(i, "comment:post", PostComment, 0)
    /\ \/ Return(i, <<OkEv(PostComment, 0)>>,
                 Envelope(<<"Comment posted on PR #", ToString(args[i].prNumber), ": \"">>
                          \o Preview(args[i].comment, PreviewCap) \o <<"\"">>))
       \/ \E err \in Errors :
             Return(i, <<ErrEv(PostComment, 0, err)>>,
                    ErrorEnvelope(<<"Error posting comment: ", err.message>>))
    /\ pending' = [pending EXCEPT ![i] = {}]
    /\ UNCHANGED <<tool, args, locals>>

\* reviewers: z.array(z.string()) admits the empty list
RequestReviewersArgs ==
    [owner : {"o"}, repo : {"r"}, prNumber : PrNumbers,
     reviewers : {<<>>, <<"alice">>, <<"alice", "bob">>}]

RECURSIVE Join(_, _)
\* parts.join(sep)
Join(parts, sep) ==
    IF Len(parts) = 0 THEN <<>>
    ELSE IF Len(parts) = 1 THEN <<parts[1]>>
    ELSE <<parts[1], sep>> \o Join(Tail(parts), sep)

RequestReviewersStart(i) ==
    \E a \in RequestReviewersArgs :
        /\ Begin(i, "request-reviewers", a)
        /\ Await(i, <<IssueEv(PostReviewers, 0,
                              [owner |-> a.owner, repo |-> a.repo,
                               pull_number |-> a.prNumber, reviewers |-> a.reviewers])>>,
                 "reviewers:post")
        /\ pending' = [pending EXCEPT ![i] = {<<PostReviewers, 0>>}]

RequestReviewersReturns(i) ==
    /\ Answered(i, "reviewers:post", PostReviewers, 0)
    /\ \/ Return(i, <<OkEv(PostReviewers, 0)>>,
                 Envelope(<<"Requested ", ToString(Len(args[i].reviewers)),
                            " reviewer(s) for PR #", ToString(args[i].prNumber), ": ">>
                          \o Join(args[i].reviewers, ", ")))
       \/ \E err \in Errors :
             Return(i, <<ErrEv(PostReviewers, 0, err)>>,
                    ErrorEnvelope(<<"Error requesting reviewers: ", err.message>>))
    /\ pending' = [pending EXCEPT ![i] = {}]
    /\ UNCHANGED <<tool, args, locals>>

(* ------------------------------ summarize-pr --------------------------- *)

SummarizePrArgs == [owner : {"o"}, repo : {"r"}, prNumber : PrNumbers]

\* one element of the response of GET pull files; patch may be absent
PullFile(name, adds, dels, patch) ==
    [filename |-> name, status |-> "modified", additions |-> adds, deletions |-> dels,
     changes |-> adds + dels, patch |-> patch]

PullFileLists ==
    {<<>>,
     <<PullFile("a", 3, 1, Absent)>>,
     <<PullFile("a", 3, 1, Some(Chars(300))), PullFile("b", 5, 0, Some(Chars(301)))>>}

\* faulty variant: the accumulator is dropped, the last file's count is the total
SumOfLast(files, field) == IF Len(files) = 0 THEN 0 ELSE files[Len(files)][field]

RECURSIVE SumOf(_, _)
\* files.reduce((sum, file) => sum + file[field], 0)
SumOf(files, field) ==
    IF Len(files) = 0 THEN 0
    ELSE SumOf(SubSeq(files, 1, Len(files) - 1), field) + files[Len(files)][field]

Summary(pr, files) ==
    [title |-> pr.title, description |-> BodyOrDefault(pr), changedFiles |-> Len(files),
     totalAdditions |-> SumOf(files, "additions"),
     totalDeletions |-> SumOf(files, "deletions")]

\* the line of one file and, when file.patch is truthy, its fenced diff excerpt
FileSection(file) ==
    <<"- **", file.filename, "** (", file.status, "): +", ToString(file.additions),
      " -", ToString(file.deletions), "\n">>
    \o (IF file.patch # Absent /\ Len(file.patch[1]) > 0
        THEN <<"diff-fence\n">> \o Preview(file.patch[1], ExcerptCap) \o <<"\nfence\n">>
        ELSE <<"">>)

RECURSIVE JoinTexts(_, _)
\* texts.join(sep), each text given by its parts
JoinTexts(texts, sep) ==
    IF Len(texts) = 0 THEN <<>>
    ELSE IF Len(texts) = 1 THEN texts[1]
    ELSE texts[1] \o <<sep>> \o JoinTexts(Tail(texts), sep)

SummaryText(n, pr, files) ==
    LET summary == Summary(pr, files) IN
    <<"# PR #", ToString(n), " Summary\n\n", "**Title**: ", summary.title, "\n\n",
      "**Description**:\n", summary.description, "\n\n",
      "**Changes**: ", ToString(summary.changedFiles), " files changed, ",
      ToString(summary.totalAdditions), " additions, ",
      ToString(summary.totalDeletions), " deletions\n\n", "## Modified Files\n\n">>
    \o JoinTexts([k \in 1..Len(files) |-> FileSection(files[k])], "\n\n")

SummarizeCatch(err) == ErrorEnvelope(<<"Error summarizing PR: ", err.message>>)

\* faulty variant: the two fetches are issued together
SummarizePrStartBoth(i) ==
    \E a \in SummarizePrArgs :
        /\ Begin(i, "summarize-pr", a)
        /\ Await(i, <<IssueEv(GetPull, 0,
                              [owner |-> a.owner, repo |-> a.repo,
                               pull_number |-> a.prNumber]),
                      IssueEv(GetPullFiles, 0,
                              [owner |-> a.owner, repo |-> a.repo,
                               pull_number |-> a.prNumber])>>, "summarize:fetch")
        /\ pending' = [pending EXCEPT ![i] = {<<GetPull, 0>>, <<GetPullFiles, 0>>}]

SummarizePrStart(i) ==
    \E a \in SummarizePrArgs :
        /\ Begin(i, "summarize-pr", a)
        /\ Await(i, <<IssueEv(GetPull, 0,
                              [owner |-> a.owner, repo |-> a.repo,
                               pull_number |-> a.prNumber])>>, "summarize:fetch")
        /\ pending' = [pending EXCEPT ![i] = {<<GetPull, 0>>}]

\* faulty variant: pr is kept in a variable of the module, which every
\* invocation reads and writes
SummarizePrFetchReturnsShared(i) ==
    /\ Answered(i, "summarize:fetch", GetPull, 0)
    /\ \/ \E pr \in PullDetails :
             /\ Await(i, <<OkEv(GetPull, 0),
                           IssueEv(GetPullFiles, 0,
                                   [owner |-> args[i].owner, repo |-> args[i].repo,
                                    pull_number |-> args[i].prNumber])>>, "summarize:files")
             /\ locals' = [j \in Invocations |->
                              IF j = i THEN [pr |-> pr]
                              ELSE [f \in DOMAIN locals[j] \cup {"pr"} |->
                                       IF f = "pr" THEN pr ELSE locals[j][f]]]
             /\ pending' = [pending EXCEPT ![i] = {<<GetPullFiles, 0>>}]
       \/ \E err \in Errors :
             /\ Return(i, <<ErrEv(GetPull, 0, err)>>, SummarizeCatch(err))
             /\ pending' = [pending EXCEPT ![i] = {}]
             /\ UNCHANGED locals
    /\ UNCHANGED <<tool, args>>

SummarizePrFetchReturns(i) ==
    /\ Answered(i, "summarize:fetch", GetPull, 0)
    /\ \/ \E pr \in PullDetails :
             /\ Await(i, <<OkEv(GetPull, 0),
                           IssueEv(GetPullFiles, 0,
                                   [owner |-> args[i].owner, repo |-> args[i].repo,
                                    pull_number |-> args[i].prNumber])>>, "summarize:files")
             /\ locals' = [locals EXCEPT ![i] = [pr |-> pr]]
             /\ pending' = [pending EXCEPT ![i] = {<<GetPullFiles, 0>>}]
       \/ \E err \in Errors :
             /\ Return(i, <<ErrEv(GetPull, 0, err)>>, SummarizeCatch(err))
             /\ pending' = [pending EXCEPT ![i] = {}]
             /\ UNCHANGED locals
    /\ UNCHANGED <<tool, args>>

SummarizePrFilesReturns(i) ==
    /\ Answered(i, "summarize:files", GetPullFiles, 0)
    /\ \/ \E files \in PullFileLists :
             /\ Return(i, <<OkEv(GetPullFiles, 0)>>,
                       Envelope(SummaryText(args[i].prNumber, locals[i].pr, files)))
             /\ locals' = [locals EXCEPT ![i] = [pr |-> locals[i].pr, files |-> files]]
       \/ \E err \in Errors :
             /\ Return(i, <<ErrEv(GetPullFiles, 0, err)>>, SummarizeCatch(err))
             /\ UNCHANGED locals
    /\ pending' = [pending EXCEPT ![i] = {}]
    /\ UNCHANGED <<tool, args>>

(* --------------------------- delete-repository ------------------------- *)

DeleteRepositoryArgs ==
    [owner : {"o"}, repo : {"r"}, confirmation : BOOLEAN]

\* faulty variant: the confirmation guard is missing
DeleteAbortsNever(a) == FALSE

\* if (!confirmation)
DeleteAborts(a) == ~a.confirmation

DeleteAbortedEnvelope ==
    Envelope(<<"Repository deletion aborted. The 'confirmation' parameter must be set to true to proceed with deletion.">>)

\* faulty variant: the catch of the probe also keeps a 401 for itself
ProbeIsNotFoundOrUnauthorized(err) == err.status \in {404, 401}

\* the catch of the existence probe: if (error.status === 404) return ...
ProbeIsNotFound(err) == err.status = 404

DeleteNotExistEnvelope(a) ==
    ErrorEnvelope(<<"Repository ", a.owner, "/", a.repo,
                    " does not exist or you don't have access to it.">>)

\* faulty variant: the catch renders the raw message for every status
DeleteCatchRaw(a, err) == ErrorEnvelope(<<"Error deleting repository: ", err.message>>)

\* the outer catch of delete-repository
DeleteCatch(a, err) ==
    ErrorEnvelope(
        CASE err.status = 403 ->
               <<"You don't have permission to delete the repository ", a.owner, "/", a.repo,
                 ". Make sure your GitHub token has the necessary permissions.">>
          [] err.status = 404 ->
               <<"Repository ", a.owner, "/", a.repo,
                 " not found. It may have already been deleted or you might not have access to it.">>
          [] err.status = 401 ->
               <<"Authentication failed. Check your GitHub token.">>
          [] OTHER ->
               <<"Error deleting repository: ", err.message>>)

DeleteRepositoryStart(i) ==
    \E a \in DeleteRepositoryArgs :
        /\ Begin(i, "delete-repository", a)
        /\ IF DeleteAborts(a)
           THEN /\ Return(i, <<>>, DeleteAbortedEnvelope)
                /\ UNCHANGED pending
           ELSE /\ Await(i, <<IssueEv(GetRepo, 0, [owner |-> a.owner, repo |-> a.repo])>>,
                         "delete:probe")
                /\ pending' = [pending EXCEPT ![i] = {<<GetRepo, 0>>}]

\* faulty variant: the catch of the probe swallows the error and the deletion goes on
DeleteRepositoryProbeFailsSwallowed(i) ==
    /\ Answered(i, "delete:probe", GetRepo, 0)
    /\ \E err \in Errors :
          Await(i, <<ErrEv(GetRepo, 0, err),
                     IssueEv(DeleteRepo, 0, [owner |-> args[i].owner, repo |-> args[i].repo])>>,
                "delete:delete")
    /\ pending' = [pending EXCEPT ![i] = {<<DeleteRepo, 0>>}]
    /\ UNCHANGED <<tool, args, locals>>

DeleteRepositoryProbeFails(i) ==
    /\ Answered(i, "delete:probe", GetRepo, 0)
    /\ \E err \in Errors :
          Return(i, <<ErrEv(GetRepo, 0, err)>>,
                 IF ProbeIsNotFound(err)
                 THEN DeleteNotExistEnvelope(args[i])
                 ELSE DeleteCatch(args[i], err))
    /\ pending' = [pending EXCEPT ![i] = {}]
    /\ UNCHANGED <<tool, args, locals>>

\* faulty variant: after the probe the handler awaits a promise that nothing
\* settles
DeleteRepositoryProbeOkStuck(i) ==
    /\ Answered(i, "delete:probe", GetRepo, 0)
    /\ Await(i, <<OkEv(GetRepo, 0)>>, "delete:delete")
    /\ pending' = [pending EXCEPT ![i] = {}]
    /\ UNCHANGED <<tool, args, locals>>

DeleteRepositoryProbeOk(i) ==
    /\ Answered(i, "delete:probe", GetRepo, 0)
    /\ Await(i, <<OkEv(GetRepo, 0),
                  IssueEv(DeleteRepo, 0, [owner |-> args[i].owner, repo |-> args[i].repo])>>,
             "delete:delete")
    /\ pending' = [pending EXCEPT ![i] = {<<DeleteRepo, 0>>}]
    /\ UNCHANGED <<tool, args, locals>>

DeleteRepositoryDeleteReturns(i) ==
    /\ Answered(i, "delete:delete", DeleteRepo, 0)
    /\ \/ Return(i, <<OkEv(DeleteRepo, 0)>>,
                 Envelope(<<"Repository ", args[i].owner, "/", args[i].repo,
                            " has been successfully deleted.">>))
       \/ \E err \in Errors :
             Return(i, <<ErrEv(DeleteRepo, 0, err)>>, DeleteCatch(args[i], err))
    /\ pending' = [pending EXCEPT ![i] = {}]
    /\ UNCHANGED <<tool, args, locals>>

(* -------------------------------- merge-pr ----------------------------- *)

\* commitTitle and commitMessage are passed through unchanged
MergePrArgs ==
    [owner : {"o"}, repo : {"r"}, prNumber : PrNumbers,
     commitTitle : Opt({"t"}), commitMessage : {Absent}]

\* prResponse.data of GET pull: mergeable is true, false or null
PullData == [mergeable : Opt(BOOLEAN), state : {"open", "closed"}]

\* faulty variant: only mergeable === false aborts, null goes on to the merge
NotMergeableOnlyFalse(data) == data.mergeable = Some(FALSE)

\* if (!prResponse.data.mergeable)
NotMergeable(data) == ~TruthyBool(data.mergeable)

\* faulty variant: another merge method
MergeParamsSquash(a) ==
    [owner |-> a.owner, repo |-> a.repo, pull_number |-> a.prNumber,
     commit_title |-> a.commitTitle, commit_message |-> a.commitMessage,
     merge_method |-> "squash"]

MergeParams(a) ==
    [owner |-> a.owner, repo |-> a.repo, pull_number |-> a.prNumber,
     commit_title |-> a.commitTitle, commit_message |-> a.commitMessage,
     merge_method |-> "merge"]

PullParams(a) == [owner |-> a.owner, repo |-> a.repo, pull_number |-> a.prNumber]

\* faulty variant: the catch returns an envelope with no content block
MergeCatchEmpty(err) == [content |-> <<>>, isError |-> TRUE]

MergeCatch(err) == ErrorEnvelope(<<"Error merging PR: ", err.message>>)

MergePrStart(i) ==
    \E a \in MergePrArgs :
        /\ Begin(i, "merge-pr", a)
        /\ Await(i, <<IssueEv(GetPull, 0, PullParams(a))>>, "merge:fetch")
        /\ pending' = [pending EXCEPT ![i] = {<<GetPull, 0>>}]

MergePrFetchReturns(i) ==
    /\ Answered(i, "merge:fetch", GetPull, 0)
    /\ \/ \E data \in PullData :
             /\ locals' = [locals EXCEPT ![i] = [prResponse |-> [data |-> data]]]
             /\ IF NotMergeable(data)
                THEN /\ Return(i, <<OkEv(GetPull, 0)>>,
                               Envelope(<<"PR #", ToString(args[i].prNumber),
                                          " is not mergeable. It may have conflicts that need to be resolved.">>))
                     /\ pending' = [pending EXCEPT ![i] = {}]
                ELSE /\ Await(i, <<OkEv(GetPull, 0), IssueEv(PutMerge, 0, MergeParams(args[i]))>>,
                              "merge:merge")
                     /\ pending' = [pending EXCEPT ![i] = {<<PutMerge, 0>>}]
       \/ \E err \in Errors :
             /\ Return(i, <<ErrEv(GetPull, 0, err)>>, MergeCatch(err))
             /\ pending' = [pending EXCEPT ![i] = {}]
             /\ UNCHANGED locals
    /\ UNCHANGED <<tool, args>>

\* faulty variant: when the merge call is rejected the PR is fetched again
MergePrMergeReturnsRefetch(i) ==
    /\ Answered(i, "merge:merge", PutMerge, 0)
    /\ \/ /\ Return(i, <<OkEv(PutMerge, 0)>>,
                    Envelope(<<"Successfully merged PR #", ToString(args[i].prNumber), "!">>))
          /\ pending' = [pending EXCEPT ![i] = {}]
       \/ \E err \in Errors :
             /\ Await(i, <<ErrEv(PutMerge, 0, err), IssueEv(GetPull, 0, PullParams(args[i]))>>,
                      "merge:fetch")
             /\ pending' = [pending EXCEPT ![i] = {<<GetPull, 0>>}]
    /\ UNCHANGED <<tool, args, locals>>

MergePrMergeReturns(i) ==
    /\ Answered(i, "merge:merge", PutMerge, 0)
    /\ \/ Return(i, <<OkEv(PutMerge, 0)>>,
                 Envelope(<<"Successfully merged PR #", ToString(args[i].prNumber), "!">>))
       \/ \E err \in Errors :
             Return(i, <<ErrEv(PutMerge, 0, err)>>, MergeCatch(err))
    /\ pending' = [pending EXCEPT ![i] = {}]
    /\ UNCHANGED <<tool, args, locals>>

(* -------------------------------- close-pr ----------------------------- *)

ClosePrArgs ==
    [owner : {"o"}, repo : {"r"}, prNumber : PrNumbers, reason : Opt({"", "why"})]

\* faulty variant: the state check is missing
NotOpenNever(data) == FALSE

\* if (prResponse.data.state !== "open")
NotOpen(data) == data.state # "open"

\* faulty variant: if (reason !== undefined)
HasReasonWhenDefined(a) == a.reason # Absent

\* if (reason)
HasReason(a) == TruthyStr(a.reason)

CloseCommentParams(a) ==
    [owner |-> a.owner, repo |-> a.repo, issue_number |-> a.prNumber,
     body |-> <<"Closing this PR: ", a.reason[1]>>]

\* faulty variant: the catch returns its envelope without isError
CloseCatchUnflagged(err) == Envelope(<<"Error closing PR: ", err.message>>)

CloseCatch(err) == ErrorEnvelope(<<"Error closing PR: ", err.message>>)

ClosedEnvelope(a) ==
    Envelope(<<"PR #", ToString(a.prNumber), " has been closed">>
             \o (IF HasReason(a) THEN <<" with reason: ", a.reason[1]>> ELSE <<"">>)
             \o <<".">>)

ClosePrStart(i) ==
    \E a \in ClosePrArgs :
        /\ Begin(i, "close-pr", a)
        /\ Await(i, <<IssueEv(GetPull, 0, PullParams(a))>>, "close:fetch")
        /\ pending' = [pending EXCEPT ![i] = {<<GetPull, 0>>}]

ClosePrFetchReturns(i) ==
    /\ Answered(i, "close:fetch", GetPull, 0)
    /\ \/ \E data \in PullData :
             /\ locals' = [locals EXCEPT ![i] = [prResponse |-> [data |-> data]]]
             /\ IF NotOpen(data)
                THEN /\ Return(i, <<OkEv(GetPull, 0)>>,
                               Envelope(<<"PR #", ToString(args[i].prNumber), " is already ",
                                          data.state, ". No action taken.">>))
                     /\ pending' = [pending EXCEPT ![i] = {}]
                ELSE /\ Await(i, <<OkEv(GetPull, 0),
                                   IssueEv(PatchIssue, 0,
                                           [owner |-> args[i].owner, repo |-> args[i].repo,
                                            issue_number |-> args[i].prNumber, state |-> "closed"])>>,
                              "close:patch")
                     /\ pending' = [pending EXCEPT ![i] = {<<PatchIssue, 0>>}]
       \/ \E err \in Errors :
             /\ Return(i, <<ErrEv(GetPull, 0, err)>>, CloseCatch(err))
             /\ pending' = [pending EXCEPT ![i] = {}]
             /\ UNCHANGED locals
    /\ UNCHANGED <<tool, args>>

ClosePrPatchReturns(i) ==
    /\ Answered(i, "close:patch", PatchIssue, 0)
    /\ \/ IF HasReason(args[i])
          THEN /\ Await(i, <<OkEv(PatchIssue, 0),
                             IssueEv(PostComment, 0, CloseCommentParams(args[i]))>>,
                        "close:comment")
               /\ pending' = [pending EXCEPT ![i] = {<<PostComment, 0>>}]
          ELSE /\ Return(i, <<OkEv(PatchIssue, 0)>>, ClosedEnvelope(args[i]))
               /\ pending' = [pending EXCEPT ![i] = {}]
       \/ \E err \in Errors :
             /\ Return(i, <<ErrEv(PatchIssue, 0, err)>>, CloseCatch(err))
             /\ pending' = [pending EXCEPT ![i] = {}]
    /\ UNCHANGED <<tool, args, locals>>

ClosePrCommentReturns(i) ==
    /\ Answered(i, "close:comment", PostComment, 0)
    /\ \/ Return(i, <<OkEv(PostComment, 0)>>, ClosedEnvelope(args[i]))
       \/ \E err \in Errors :
             Return(i, <<ErrEv(PostComment, 0, err)>>, CloseCatch(err))
    /\ pending' = [pending EXCEPT ![i] = {}]
    /\ UNCHANGED <<tool, args, locals>>

(* --------------------------- create-repository ------------------------- *)

FileContents == <<"A", "B", "C", "D">>

RepositoryFiles ==
    {[k \in DOMAIN fl |-> [path |-> fl[k], content |-> FileContents[k]]] : fl \in FileLists}

CreateRepositoryArgs ==
    [owner : Opt({"", "org"}), name : {"n"}, description : {Absent}, private : {FALSE},
     files : Opt(RepositoryFiles), initializeWithReadme : BOOLEAN]

\* description: description || ""
CreateParams(a) ==
    [name |-> a.name,
     description |-> IF TruthyStr(a.description) THEN a.description[1] ELSE "",
     private |-> a.private, auto_init |-> a.initializeWithReadme]

\* faulty variant: if (owner === undefined)
CreateEndpointWhenDefined(a) == IF a.owner = Absent THEN PostUserRepos ELSE PostOrgRepos

\* if (!owner) POST /user/repos else POST /orgs/{org}/repos
CreateEndpoint(a) == IF ~TruthyStr(a.owner) THEN PostUserRepos ELSE PostOrgRepos

CreateCallParams(a) ==
    IF ~TruthyStr(a.owner)
    THEN CreateParams(a)
    ELSE [org |-> a.owner[1], name |-> a.name,
          description |-> CreateParams(a).description,
          private |-> a.private, auto_init |-> a.initializeWithReadme]

\* createRepoResponse.data, as the forge answers the create call
RepoDataFor(a) ==
    {[owner |-> [login |-> IF TruthyStr(a.owner) THEN a.owner[1] ELSE "me"],
      name |-> a.name, default_branch |-> b,
      html_url |-> "https://github.com/x/n"] : b \in {"main"}}

\* faulty variant: if (!files && initializeWithReadme)
NoFilesAndReadmeAbsentOnly(a) == a.files = Absent /\ a.initializeWithReadme

\* if ((!files || files.length === 0) && initializeWithReadme)
NoFilesAndReadme(a) ==
    (a.files = Absent \/ Len(a.files[1]) = 0) /\ a.initializeWithReadme

\* faulty variant: files are added only to a repository initialized with a README
HasFilesAndReadme(a) == a.files # Absent /\ Len(a.files[1]) > 0 /\ a.initializeWithReadme

\* faulty variant: if (files)
HasFilesDefined(a) == a.files # Absent

\* if (files && files.length > 0)
HasFiles(a) == a.files # Absent /\ Len(a.files[1]) > 0

CreatedText(a, repoData) ==
    <<"Repository created successfully!\n\nName: ", a.name, "\nOwner: ", repoData.owner.login,
      "\nVisibility: ", IF a.private THEN "Private" ELSE "Public", "\nURL: ", repoData.html_url>>

\* faulty variant: the catch returns its envelope without isError
CreateCatchUnflagged(err) == Envelope(<<"Error creating repository: ", err.message>>)

CreateCatch(err) == ErrorEnvelope(<<"Error creating repository: ", err.message>>)

RepoParams(l) == [owner |-> l.repoData.owner.login, repo |-> l.repoData.name]

\* the shas in the answers of the forge: the head commit of the default
\* branch, its tree, the blob of a content, the tree and the commit created
HeadSha == <<"commit", "head">>
BaseTreeSha == <<"tree", "head">>
BlobSha(content) == <<"blob", content>>
NewTreeSha == <<"tree", "new">>
NewCommitSha == <<"commit", "new">>

\* faulty variant: the results are collected in the order of arrival
StoreBlobOnArrival(results, k, sha) ==
    LET free == {n \in 1..Len(results) : results[n] = Absent}
        first == CHOOSE n \in free : \A m \in free : n <= m
    IN [results EXCEPT ![first] = Some(sha)]

\* Promise.all: the result of the k-th promise is the k-th element of the results
StoreBlob(results, k, sha) == [results EXCEPT ![k] = Some(sha)]

\* the blob answer for the k-th file is received
BlobReceived(l, a, k) ==
    [l EXCEPT !.blobResults = StoreBlob(l.blobResults, k, BlobSha(a.files[1][k].content))]

\* files.map((file, i) => ({ path, mode, type, sha: blobResults[i].data.sha }))
TreeItems(a, l) ==
    [k \in 1..Len(a.files[1]) |->
        [path |-> a.files[1][k].path, mode |-> "100644", type |-> "blob",
         sha |-> l.blobResults[k][1]]]

\* the call that fetches the current tree
TreeIssue(l) ==
    IssueEv(GetTree, 0, [owner |-> RepoParams(l).owner, repo |-> RepoParams(l).repo,
                         tree_sha |-> l.latestCommitSha, recursive |-> "true"])

\* faulty variant: only the first file's blob call is issued before the await
BlobIssuesFirstOnly(a, l) ==
    <<IssueEv(PostBlobs, 1, [owner |-> RepoParams(l).owner, repo |-> RepoParams(l).repo,
                             content |-> a.files[1][1].content, encoding |-> "base64"])>>

\* files.map(file => octokit.request("POST .../git/blobs", ...)): one call per file, in order
BlobIssues(a, l) ==
    [k \in 1..Len(a.files[1]) |->
        IssueEv(PostBlobs, k, [owner |-> RepoParams(l).owner, repo |-> RepoParams(l).repo,
                               content |-> a.files[1][k].content, encoding |-> "base64"])]

CreateRepositoryStart(i) ==
    \E a \in CreateRepositoryArgs :
        /\ Begin(i, "create-repository", a)
        /\ Await(i, <<IssueEv(CreateEndpoint(a), 0, CreateCallParams(a))>>, "create:repo")
        /\ pending' = [pending EXCEPT ![i] = {<<CreateEndpoint(a), 0>>}]

CreateRepositoryCreateReturns(i) ==
    LET a == args[i]
        ep == CreateEndpoint(a)
    IN
    /\ Answered(i, "create:repo", ep, 0)
    /\ \/ \E repoData \in RepoDataFor(a) :
             LET l == [repoData |-> repoData] IN
             /\ locals' = [locals EXCEPT ![i] = l]
             /\ IF NoFilesAndReadme(a)
                THEN /\ Return(i, <<OkEv(ep, 0)>>,
                               Envelope(CreatedText(a, repoData)
                                        \o <<"\n\nInitialized with README.md">>))
                     /\ pending' = [pending EXCEPT ![i] = {}]
                ELSE IF HasFiles(a)
                THEN /\ Await(i, <<OkEv(ep, 0),
                                   IssueEv(GetRef, 0,
                                           [owner |-> RepoParams(l).owner,
                                            repo |-> RepoParams(l).repo,
                                            ref |-> <<"heads/", repoData.default_branch>>])>>,
                              "create:ref")
                     /\ pending' = [pending EXCEPT ![i] = {<<GetRef, 0>>}]
                ELSE /\ Return(i, <<OkEv(ep, 0)>>, Envelope(CreatedText(a, repoData)))
                     /\ pending' = [pending EXCEPT ![i] = {}]
       \/ \E err \in Errors :
             /\ Return(i, <<ErrEv(ep, 0, err)>>, CreateCatch(err))
             /\ pending' = [pending EXCEPT ![i] = {}]
             /\ UNCHANGED locals
    /\ UNCHANGED <<tool, args>>

CreateRepositoryRefReturns(i) ==
    /\ Answered(i, "create:ref", GetRef, 0)
    /\ \/ /\ Await(i, <<OkEv(GetRef, 0)>> \o BlobIssues(args[i], locals[i]), "create:blobs")
          /\ pending' = [pending EXCEPT ![i] =
                            {<<PostBlobs, k>> : k \in 1..Len(args[i].files[1])}]
          /\ locals' = [locals EXCEPT ![i] =
                           [repoData |-> locals[i].repoData, latestCommitSha |-> HeadSha,
                            blobResults |-> [k \in 1..Len(args[i].files[1]) |-> Absent]]]
       \/ \E err \in Errors :
             /\ Return(i, <<ErrEv(GetRef, 0, err)>>, CreateCatch(err))
             /\ pending' = [pending EXCEPT ![i] = {}]
             /\ UNCHANGED locals
    /\ UNCHANGED <<tool, args>>

\* faulty variant: Promise.race, the workflow goes on when the first blob call is answered
CreateRepositoryBlobReturnsFirst(i, k) ==
    /\ Answered(i, "create:blobs", PostBlobs, k)
    /\ LET rest == pending[i] \ {<<PostBlobs, k>>} IN
       \/ /\ Await(i, <<OkEv(PostBlobs, k),
                         TreeIssue(locals[i])>>,
                    "create:tree")
          /\ pending' = [pending EXCEPT ![i] = rest \cup {<<GetTree, 0>>}]
       \/ \E err \in Errors :
             /\ Return(i, <<ErrEv(PostBlobs, k, err)>>, CreateCatch(err))
             /\ pending' = [pending EXCEPT ![i] = rest]
    /\ UNCHANGED <<tool, args, locals>>

\* faulty variant: Promise.allSettled, a failed blob call counts as answered
CreateRepositoryBlobReturnsSettled(i, k) ==
    /\ Answered(i, "create:blobs", PostBlobs, k)
    /\ LET rest == pending[i] \ {<<PostBlobs, k>>} IN
       \E ev \in {OkEv(PostBlobs, k)} \cup {ErrEv(PostBlobs, k, err) : err \in Errors} :
          IF rest = {}
          THEN /\ Await(i, <<ev,
                             TreeIssue(locals[i])>>,
                        "create:tree")
               /\ pending' = [pending EXCEPT ![i] = {<<GetTree, 0>>}]
          ELSE /\ Await(i, <<ev>>, "create:blobs")
               /\ pending' = [pending EXCEPT ![i] = rest]
    /\ UNCHANGED <<tool, args, locals>>

\* Promise.all: resolves when the last blob call has succeeded, rejects on the first failure
CreateRepositoryBlobReturns(i, k) ==
    /\ Answered(i, "create:blobs", PostBlobs, k)
    /\ LET rest == pending[i] \ {<<PostBlobs, k>>} IN
       \/ /\ locals' = [locals EXCEPT ![i] = BlobReceived(locals[i], args[i], k)]
          /\ IF rest = {}
             THEN /\ Await(i, <<OkEv(PostBlobs, k), TreeIssue(locals[i])>>, "create:tree")
                  /\ pending' = [pending EXCEPT ![i] = {<<GetTree, 0>>}]
             ELSE /\ Await(i, <<OkEv(PostBlobs, k)>>, "create:blobs")
                  /\ pending' = [pending EXCEPT ![i] = rest]
       \/ \E err \in Errors :
             /\ Return(i, <<ErrEv(PostBlobs, k, err)>>, CreateCatch(err))
             /\ pending' = [pending EXCEPT ![i] = rest]
             /\ UNCHANGED locals
    /\ UNCHANGED <<tool, args>>

\* a blob call still in flight when Promise.all rejected: its answer is dropped
CreateRepositoryLateBlobReturns(i, k) ==
    /\ Answered(i, "done", PostBlobs, k)
    /\ pending' = [pending EXCEPT ![i] = pending[i] \ {<<PostBlobs, k>>}]
    /\ \/ log' = [log EXCEPT ![i] = Append(log[i], OkEv(PostBlobs, k))]
       \/ \E err \in Errors :
             log' = [log EXCEPT ![i] = Append(log[i], ErrEv(PostBlobs, k, err))]
    /\ UNCHANGED <<pc, tool, args, locals, env>>

\* faulty variant: the commit is made of the tree that was fetched
CommitParamsOfBaseTree(l) ==
    [owner |-> RepoParams(l).owner, repo |-> RepoParams(l).repo,
     message |-> "Add initial files", tree |-> l.treeResponse.data.sha,
     parents |-> <<l.latestCommitSha>>]

\* the parameters of the create-tree, create-commit and update-ref calls
NewTreeParams(a, l) ==
    [owner |-> RepoParams(l).owner, repo |-> RepoParams(l).repo,
     base_tree |-> l.treeResponse.data.sha, tree |-> TreeItems(a, l)]

CommitParams(l) ==
    [owner |-> RepoParams(l).owner, repo |-> RepoParams(l).repo,
     message |-> "Add initial files", tree |-> l.newTree.data.sha,
     parents |-> <<l.latestCommitSha>>]

UpdateRefParams(l) ==
    [owner |-> RepoParams(l).owner, repo |-> RepoParams(l).repo,
     ref |-> <<"heads/", l.repoData.default_branch>>, sha |-> l.commitResponse.data.sha]

\* l with the answer data kept under the name field
With(l, field, data) ==
    [f \in DOMAIN l \cup {field} |-> IF f = field THEN [data |-> data] ELSE l[f]]

CreateRepositoryTreeReturns(i) ==
    /\ Answered(i, "create:tree", GetTree, 0)
    /\ \/ LET l == With(locals[i], "treeResponse", [sha |-> BaseTreeSha]) IN
          /\ Await(i, <<OkEv(GetTree, 0), IssueEv(PostTrees, 0, NewTreeParams(args[i], l))>>,
                   "create:newtree")
          /\ locals' = [locals EXCEPT ![i] = l]
          /\ pending' = [pending EXCEPT ![i] = {<<PostTrees, 0>>}]
       \/ \E err \in Errors :
             /\ Return(i, <<ErrEv(GetTree, 0, err)>>, CreateCatch(err))
             /\ pending' = [pending EXCEPT ![i] = {}]
             /\ UNCHANGED locals
    /\ UNCHANGED <<tool, args>>

CreateRepositoryNewTreeReturns(i) ==
    /\ Answered(i, "create:newtree", PostTrees, 0)
    /\ \/ LET l == With(locals[i], "newTree", [sha |-> NewTreeSha]) IN
          /\ Await(i, <<OkEv(PostTrees, 0), IssueEv(PostCommits, 0, CommitParams(l))>>,
                   "create:commit")
          /\ locals' = [locals EXCEPT ![i] = l]
          /\ pending' = [pending EXCEPT ![i] = {<<PostCommits, 0>>}]
       \/ \E err \in Errors :
             /\ Return(i, <<ErrEv(PostTrees, 0, err)>>, CreateCatch(err))
             /\ pending' = [pending EXCEPT ![i] = {}]
             /\ UNCHANGED locals
    /\ UNCHANGED <<tool, args>>

CreateRepositoryCommitReturns(i) ==
    /\ Answered(i, "create:commit", PostCommits, 0)
    /\ \/ LET l == With(locals[i], "commitResponse", [sha |-> NewCommitSha]) IN
          /\ Await(i, <<OkEv(PostCommits, 0), IssueEv(PatchRef, 0, UpdateRefParams(l))>>,
                   "create:updateref")
          /\ locals' = [locals EXCEPT ![i] = l]
          /\ pending' = [pending EXCEPT ![i] = {<<PatchRef, 0>>}]
       \/ \E err \in Errors :
             /\ Return(i, <<ErrEv(PostCommits, 0, err)>>, CreateCatch(err))
             /\ pending' = [pending EXCEPT ![i] = {}]
             /\ UNCHANGED locals
    /\ UNCHANGED <<tool, args>>

FileListText(files) == [k \in 1..Len(files) |-> <<"- ", files[k].path>>]

CreateRepositoryUpdateRefReturns(i) ==
    /\ Answered(i, "create:updateref", PatchRef, 0)
    /\ \/ Return(i, <<OkEv(PatchRef, 0)>>,
                 Envelope(CreatedText(args[i], locals[i].repoData)
                          \o <<"\n\nAdded ", ToString(Len(args[i].files[1])), " files:\n",
                               FileListText(args[i].files[1])>>))
       \/ \E err \in Errors :
             Return(i, <<ErrEv(PatchRef, 0, err)>>, CreateCatch(err))
    /\ pending' = [pending EXCEPT ![i] = {}]
    /\ UNCHANGED <<tool, args, locals>>

(* ------------------------------ next state ----------------------------- *)

Step(i) ==
    \/ RejectUnknownTool(i)
    \/ ListPrsStart(i)
    \/ ListPrsReturns(i)
    \/ DiscussPrStart(i)
    \/ DiscussPrListReturns(i)
    \/ DiscussPrFetchReturns(i)
    \/ CommentOnPrStart(i)
    \/ CommentOnPrReturns(i)
    \/ RequestReviewersStart(i)
    \/ RequestReviewersReturns(i)
    \/ SummarizePrStart(i)
    \/ SummarizePrFetchReturns(i)
    \/ SummarizePrFilesReturns(i)
    \/ DeleteRepositoryStart(i)
    \/ DeleteRepositoryProbeFails(i)
    \/ DeleteRepositoryProbeOk(i)
    \/ DeleteRepositoryDeleteReturns(i)
    \/ MergePrStart(i)
    \/ MergePrFetchReturns(i)
    \/ MergePrMergeReturns(i)
    \/ ClosePrStart(i)
    \/ ClosePrFetchReturns(i)
    \/ ClosePrPatchReturns(i)
    \/ ClosePrCommentReturns(i)
    \/ CreateRepositoryStart(i)
    \/ CreateRepositoryCreateReturns(i)
    \/ CreateRepositoryRefReturns(i)
    \/ \E k \in 1..MaxFiles : CreateRepositoryBlobReturns(i, k)
    \/ \E k \in 1..MaxFiles : CreateRepositoryLateBlobReturns(i, k)
    \/ CreateRepositoryTreeReturns(i)
    \/ CreateRepositoryNewTreeReturns(i)
    \/ CreateRepositoryCommitReturns(i)
    \/ CreateRepositoryUpdateRefReturns(i)

Next == \E i \in Serial : Step(i)

Spec == Init /\ [][Next]_vars

\* two invocations of the browsing tools, list-prs and discuss-pr, running
\* side by side: each is answered by the forge on its own
NextBrowse ==
    \E i \in Invocations :
        \/ ListPrsStart(i)
        \/ ListPrsReturns(i)
        \/ DiscussPrStart(i)
        \/ DiscussPrListReturns(i)
        \/ DiscussPrFetchReturns(i)

SpecBrowse == Init /\ [][NextBrowse]_vars

\* two invocations of merge-pr side by side, their steps interleaved in every
\* order; the forge answers each call as the PR is at that moment, which the
\* other invocation may have changed
NextMerge ==
    \E i \in Invocations :
        \/ MergePrStart(i)
        \/ MergePrFetchReturns(i)
        \/ MergePrMergeReturns(i)

SpecMerge == Init /\ [][NextMerge]_vars

\* a handler that has begun and not returned goes on: the answer of a call it
\* awaits arrives and its continuation runs
Continues(i) == pc[i] \notin {"idle", "rejected", "done"} /\ Step(i)

\* every call that is issued is eventually answered, and the continuation of
\* the handler that awaits it is then run
SpecLive == Init /\ [][Next]_vars /\ \A i \in Serial : WF_vars(Continues(i))

\* the invocations that run beside the first
Companions == Invocations \ Serial

\* two invocations side by side, their steps interleaved in every order: the
\* first runs any tool, the one beside it summarize-pr or delete-repository
NextPair ==
    \/ \E i \in Serial : Step(i)
    \/ \E i \in Companions :
          \/ SummarizePrStart(i)
          \/ SummarizePrFetchReturns(i)
          \/ SummarizePrFilesReturns(i)
          \/ DeleteRepositoryStart(i)
          \/ DeleteRepositoryProbeFails(i)
          \/ DeleteRepositoryProbeOk(i)
          \/ DeleteRepositoryDeleteReturns(i)

SpecPair == Init /\ [][NextPair]_vars

(* ------------------------- reading an invocation ----------------------- *)

\* positions in the log of invocation i where a call to ep is issued
IssuesOf(i, ep) == {k \in 1..Len(log[i]) : log[i][k].ev = "issue" /\ log[i][k].ep = ep}

\* positions in the log of invocation i where any call is issued
AllIssues(i) == {k \in 1..Len(log[i]) : log[i][k].ev = "issue"}

Returned(i) == pc[i] = "done" /\ env[i] # Absent
Result(i) == env[i][1]
ResultText(i) == env[i][1].content[1].text
Is(i, t) == tool[i] = t

(* ----------------------------- delete-repository ----------------------- *)

C2_DeleteOnlyConfirmedAfterProbe ==
    \A i \in Invocations :
        \A k \in IssuesOf(i, DeleteRepo) :
            /\ Is(i, "delete-repository")
            /\ args[i].confirmation = TRUE
            /\ k = 3
            /\ log[i][1].ev = "issue" /\ log[i][1].ep = GetRepo
            /\ log[i][2].ev = "ok" /\ log[i][2].ep = GetRepo
            /\ IssuesOf(i, DeleteRepo) = {k}

C2_Witness ==
    \E i \in Invocations : IssuesOf(i, DeleteRepo) # {} /\ Returned(i)

\* C3 (as claimed): with confirmation=true, when the existence probe fails with
\* status 404, no delete call is issued and the returned envelope is not
\* flagged as an error.
C3_ProbeNotFoundIsInformational ==
    \A i \in Invocations :
        (/\ Is(i, "delete-repository")
         /\ \E k \in 1..Len(log[i]) :
               log[i][k].ev = "err" /\ log[i][k].ep = GetRepo /\ log[i][k].status = 404)
        => /\ Returned(i)
           /\ IssuesOf(i, DeleteRepo) = {}
           /\ ~Flagged(Result(i))

(* --------------------------------- merge-pr ---------------------------- *)

\* the pre-merge fetch of invocation i has returned data
Fetched(i) == "prResponse" \in DOMAIN locals[i]

\* C4: in merge-pr, whenever the pre-merge fetch reports a mergeable value
\* other than true (false or null), no merge call is issued and the returned
\* envelope is not flagged as an error.
C4_NotMergeableNoMerge ==
    \A i \in Invocations :
        (Is(i, "merge-pr") /\ Fetched(i) /\ locals[i].prResponse.data.mergeable # Some(TRUE))
        => /\ Returned(i)
           /\ IssuesOf(i, PutMerge) = {}
           /\ AllIssues(i) = {1}
           /\ ~Flagged(Result(i))

C4_Witness ==
    \E i \in Invocations :
        /\ Is(i, "merge-pr") /\ Fetched(i) /\ Returned(i)
        /\ locals[i].prResponse.data.mergeable = Absent

\* C5: in merge-pr, when the pre-merge fetch reports mergeable=true, exactly
\* one merge call with merge method "merge" is issued, right after the fetch
\* has returned, with no second fetch; the envelope reports success when the
\* merge call succeeds and is flagged as an error when it fails.
C5_MergeableMergesOnce ==
    \A i \in Invocations :
        (Is(i, "merge-pr") /\ Fetched(i) /\ locals[i].prResponse.data.mergeable = Some(TRUE))
        => /\ IssuesOf(i, GetPull) = {1}
           /\ log[i][2].ev = "ok" /\ log[i][2].ep = GetPull
           /\ IssuesOf(i, PutMerge) = {3}
           /\ log[i][3].params.merge_method = "merge"
           /\ AllIssues(i) = {1, 3}
           /\ Len(log[i]) \in {3, 4}
           /\ Returned(i) <=> Len(log[i]) = 4
           /\ Returned(i) =>
                 /\ log[i][4].ep = PutMerge
                 /\ log[i][4].ev = "ok" =>
                       /\ ~Flagged(Result(i))
                       /\ ResultText(i)[1] = "Successfully merged PR #"
                 /\ log[i][4].ev = "err" => Flagged(Result(i))

C5_Witness ==
    \E i \in Invocations :
        /\ Is(i, "merge-pr") /\ Fetched(i) /\ Returned(i)
        /\ locals[i].prResponse.data.mergeable = Some(TRUE)
        /\ log[i][Len(log[i])].ev = "ok"

(* --------------------------------- close-pr ---------------------------- *)

\* the event at position k of the log of i is the successful return of ep
OkAt(i, k, ep) == k \in 1..Len(log[i]) /\ log[i][k].ev = "ok" /\ log[i][k].ep = ep
ErrAt(i, k, ep) == k \in 1..Len(log[i]) /\ log[i][k].ev = "err" /\ log[i][k].ep = ep

\* C6: in close-pr, if the fetched PR state is not open, neither the
\* state-update call nor a comment call is issued, and the handler returns a
\* non-error informational envelope naming the current state.
C6_NotOpenNoUpdate ==
    \A i \in Invocations :
        (Is(i, "close-pr") /\ Fetched(i) /\ locals[i].prResponse.data.state # "open")
        => /\ Returned(i)
           /\ IssuesOf(i, PatchIssue) = {}
           /\ IssuesOf(i, PostComment) = {}
           /\ AllIssues(i) = {1}
           /\ ~Flagged(Result(i))
           /\ \E n \in 1..Len(ResultText(i)) :
                 ResultText(i)[n] = locals[i].prResponse.data.state

C6_Witness ==
    \E i \in Invocations :
        /\ Is(i, "close-pr") /\ Fetched(i) /\ Returned(i)
        /\ locals[i].prResponse.data.state = "closed"

\* the comment call is issued at most once, and only right after the
\* state-update call has returned successfully
CommentOnlyAfterUpdate(i) ==
    /\ Cardinality(IssuesOf(i, PostComment)) <= 1
    /\ \A k \in IssuesOf(i, PostComment) :
          /\ OkAt(i, k - 1, PatchIssue)
          /\ IssuesOf(i, PatchIssue) = {k - 2}

\* C7 (as claimed): in close-pr on an open PR, if a reason is supplied and the
\* state-update call succeeds, exactly one comment-creation call follows it;
\* the comment call is never issued before the state-update has succeeded, and
\* never when no reason is supplied or the state-update fails.
C7_SuppliedReasonIsCommented ==
    \A i \in Invocations :
        Is(i, "close-pr") =>
           /\ CommentOnlyAfterUpdate(i)
           /\ (args[i].reason # Absent /\ \E k \in 1..Len(log[i]) : OkAt(i, k, PatchIssue))
              => Cardinality(IssuesOf(i, PostComment)) = 1
           /\ args[i].reason = Absent => IssuesOf(i, PostComment) = {}

\* C7 (amended): as C7, for a reason that is supplied and not the empty
\* string; with an absent or empty reason no comment call is issued.
C7_NonEmptyReasonIsCommented ==
    \A i \in Invocations :
        Is(i, "close-pr") =>
           /\ CommentOnlyAfterUpdate(i)
           /\ (args[i].reason \in {Some("why")} /\ \E k \in 1..Len(log[i]) : OkAt(i, k, PatchIssue))
              => Cardinality(IssuesOf(i, PostComment)) = 1
           /\ args[i].reason \in {Absent, Some("")} => IssuesOf(i, PostComment) = {}

C7_Witness ==
    \E i \in Invocations :
        /\ Is(i, "close-pr") /\ Returned(i)
        /\ args[i].reason = Some("why")
        /\ IssuesOf(i, PostComment) = {5}

\* C8: in close-pr, if the follow-up comment call fails after the state-update
\* succeeded, the handler returns an envelope flagged as an error that carries
\* that failure, and issues no call after the failed one: no reopening
\* state-update, no second comment call.
C8_CommentFailureSurfaces ==
    \A i \in Invocations :
        \A k \in 1..Len(log[i]) :
            (Is(i, "close-pr") /\ ErrAt(i, k, PostComment))
            => /\ Returned(i)
               /\ k = Len(log[i])
               /\ OkAt(i, 4, PatchIssue)
               /\ AllIssues(i) = {1, 3, 5}
               /\ IssuesOf(i, PatchIssue) = {3}
               /\ IssuesOf(i, PostComment) = {5}
               /\ Flagged(Result(i))
               /\ ResultText(i) = <<"Error closing PR: ", ErrMessage(log[i][k].status)>>

C8_Witness ==
    \E i \in Invocations :
        Is(i, "close-pr") /\ Returned(i) /\ ErrAt(i, Len(log[i]), PostComment)

(* ----------------------------- create-repository ----------------------- *)

CreateCalls == {PostUserRepos, PostOrgRepos}

\* C9: create-repository with files empty or absent and initializeWithReadme
\* true issues exactly one remote call, the create call, and when that call
\* succeeds returns the success envelope of a repository initialized with a
\* README; no ref, blob, tree or commit call is issued.
C9_NoFilesReadmeOneCall ==
    \A i \in Invocations :
        (/\ Is(i, "create-repository")
         /\ args[i].files \in {Absent, Some(<<>>)}
         /\ args[i].initializeWithReadme = TRUE)
        => /\ AllIssues(i) = {1}
           /\ log[i][1].ep \in CreateCalls
           /\ Len(log[i]) <= 2
           /\ OkAt(i, 2, log[i][1].ep) =>
                 /\ Returned(i)
                 /\ ~Flagged(Result(i))
                 /\ ResultText(i)[Len(ResultText(i))] = "\n\nInitialized with README.md"

C9_Witness ==
    \E i \in Invocations :
        /\ Is(i, "create-repository") /\ Returned(i)
        /\ args[i].files = Some(<<>>) /\ args[i].initializeWithReadme = TRUE
        /\ log[i][Len(log[i])].ev = "ok"

\* the endpoints create-repository calls for n files, in order, after the create call
StepsAfterCreate(n) ==
    <<GetRef>> \o [k \in 1..n |-> PostBlobs] \o <<GetTree, PostTrees, PostCommits, PatchRef>>

\* the endpoints of the calls issued by invocation i, in the order of issue
RECURSIVE IssuedEps(_)
IssuedEps(l) ==
    IF l = <<>> THEN <<>>
    ELSE (IF Head(l).ev = "issue" THEN <<Head(l).ep>> ELSE <<>>) \o IssuedEps(Tail(l))

\* every call issued before position k of the log of i has returned before k
AllReturnedBefore(i, k) ==
    \A j \in 1..(k - 1) :
        log[i][j].ev = "issue" =>
            \E r \in (j + 1)..(k - 1) :
                log[i][r].ev = "ok" /\ log[i][r].ep = log[i][j].ep /\ log[i][r].n = log[i][j].n

NoFailure(i) == \A k \in 1..Len(log[i]) : log[i][k].ev # "err"

\* C10: create-repository with N >= 1 files, while every call succeeds, issues
\* create, fetch-ref, N blob-creates, fetch-tree, create-tree, create-commit,
\* update-ref in that order; every call other than a blob-create is issued
\* only after all calls issued before it have returned, a blob-create only
\* with blob-creates outstanding, and the handler returns success exactly when
\* update-ref has returned.
C10_CreateWithFilesOrder ==
    \A i \in Invocations :
        (/\ Is(i, "create-repository")
         /\ args[i].files # Absent /\ Len(args[i].files[1]) >= 1
         /\ NoFailure(i))
        => LET n == Len(args[i].files[1])
               eps == IssuedEps(log[i])
               want == StepsAfterCreate(n)
           IN /\ eps[1] \in CreateCalls
              /\ Len(eps) <= Len(want) + 1
              /\ \A k \in 2..Len(eps) : eps[k] = want[k - 1]
              /\ \A k \in AllIssues(i) :
                    IF log[i][k].ep = PostBlobs
                    THEN \A j \in 1..(k - 1) :
                            log[i][j].ev = "issue" /\ log[i][j].ep # PostBlobs
                            => \E r \in (j + 1)..(k - 1) : OkAt(i, r, log[i][j].ep)
                    ELSE AllReturnedBefore(i, k)
              /\ {log[i][k].n : k \in IssuesOf(i, PostBlobs)} \in {{}, 1..n}
              /\ Returned(i) <=> OkAt(i, Len(log[i]), PatchRef)
              /\ Returned(i) => Len(eps) = Len(want) + 1 /\ ~Flagged(Result(i))

C10_Witness ==
    \E i \in Invocations :
        /\ Is(i, "create-repository") /\ Returned(i) /\ NoFailure(i)
        /\ args[i].files # Absent /\ Len(args[i].files[1]) = MaxFiles
        /\ OkAt(i, Len(log[i]), PatchRef)
        /\ \E k \in 1..Len(log[i]) : OkAt(i, k, PostBlobs) /\ log[i][k].n = 2
                                    /\ OkAt(i, k + 1, PostBlobs) /\ log[i][k + 1].n = 1

\* positions in the log of i where a call to ep fails
ErrorsOf(i, ep) == {k \in 1..Len(log[i]) : log[i][k].ev = "err" /\ log[i][k].ep = ep}

AfterBlobs == {GetTree, PostTrees, PostCommits, PatchRef}

\* C11: in create-repository, if any one of the N parallel blob creations
\* fails, fetch-tree, create-tree, create-commit and update-ref are never
\* issued in that invocation, however many other blob creations succeeded and
\* in whatever order the answers arrive, and the envelope is flagged as an
\* error.
C11_BlobFailureAborts ==
    \A i \in Invocations :
        (Is(i, "create-repository") /\ ErrorsOf(i, PostBlobs) # {})
        => /\ Returned(i)
           /\ Flagged(Result(i))
           /\ \A ep \in AfterBlobs : IssuesOf(i, ep) = {}
           /\ \A k \in AllIssues(i) : \A e \in ErrorsOf(i, PostBlobs) : k < e

C11_Witness ==
    \E i \in Invocations :
        /\ Is(i, "create-repository") /\ Returned(i)
        /\ \E k \in 1..Len(log[i]) :
              /\ OkAt(i, k, PostBlobs) /\ log[i][k].n = 2
              /\ ErrAt(i, k + 1, PostBlobs) /\ log[i][k + 1].n = 1

\* some blob call of invocation i has been issued and not yet answered
BlobOutstanding(i) == \E c \in pending[i] : c[1] = PostBlobs

\* C12 (as claimed): in create-repository with N input files all N blob
\* creations are issued together, before any blob answer is awaited, and the
\* workflow stays suspended until all N have completed.
C12_SuspendedUntilAllComplete ==
    \A i \in Invocations :
        (Is(i, "create-repository") /\ IssuesOf(i, PostBlobs) # {})
        => /\ Cardinality(IssuesOf(i, PostBlobs)) = Len(args[i].files[1])
           /\ pc[i] # "create:blobs" => ~BlobOutstanding(i)

\* C12 (amended): all N blob creations are issued together, right after
\* fetch-ref has returned and before any blob answer; the workflow then stays
\* suspended until all N have succeeded or the first one has failed: it goes
\* on to fetch-tree only when all N have succeeded, and on the first failure
\* it returns at once, with the other blob calls possibly still outstanding.
C12_SuspendedUntilAllSucceedOrOneFails ==
    \A i \in Invocations :
        (Is(i, "create-repository") /\ IssuesOf(i, PostBlobs) # {})
        => LET n == Len(args[i].files[1])
               first == CHOOSE k \in IssuesOf(i, PostBlobs) :
                           \A j \in IssuesOf(i, PostBlobs) : k <= j
           IN /\ OkAt(i, first - 1, GetRef)
              /\ IssuesOf(i, PostBlobs) = first..(first + n - 1)
              /\ \A k \in 1..n : log[i][first + k - 1].n = k
              /\ pc[i] = "create:blobs" =>
                    /\ env[i] = Absent
                    /\ ErrorsOf(i, PostBlobs) = {}
                    /\ BlobOutstanding(i)
              /\ \A t \in IssuesOf(i, GetTree) :
                    \A k \in 1..n : \E r \in 1..(t - 1) : OkAt(i, r, PostBlobs) /\ log[i][r].n = k
              /\ (pc[i] # "create:blobs" /\ BlobOutstanding(i)) =>
                    /\ Returned(i) /\ Flagged(Result(i))
                    /\ ErrorsOf(i, PostBlobs) # {}

C12_Witness ==
    \E i \in Invocations :
        /\ Is(i, "create-repository") /\ Returned(i)
        /\ args[i].files # Absent
        /\ Len(args[i].files[1]) = MaxFiles
        /\ BlobOutstanding(i)

\* C13: in create-repository, if a step fails (the create call or any later
\* step), no call is issued after the failure, no repository-deletion call is
\* issued, and the handler returns an envelope flagged as an error; a failed
\* create call leaves exactly one call issued.
C13_FailureStopsWorkflow ==
    \A i \in Invocations :
        \A e \in 1..Len(log[i]) :
            (Is(i, "create-repository") /\ log[i][e].ev = "err")
            => /\ Returned(i)
               /\ Flagged(Result(i))
               /\ ResultText(i)[1] = "Error creating repository: "
               /\ \A k \in AllIssues(i) : k < e
               /\ IssuesOf(i, DeleteRepo) = {}
               /\ log[i][e].ep \in CreateCalls => AllIssues(i) = {1} /\ Len(log[i]) = 2
               /\ log[i][e].ep # PostBlobs => e = Len(log[i]) /\ pending[i] = {}

C13_Witness ==
    \E i \in Invocations :
        /\ Is(i, "create-repository") /\ Returned(i)
        /\ ErrAt(i, Len(log[i]), PostCommits)

\* every blob call of the n files of i has succeeded and none has failed
AllBlobsOk(i, n) ==
    /\ ErrorsOf(i, PostBlobs) = {}
    /\ \A k \in 1..n : \E r \in 1..Len(log[i]) : OkAt(i, r, PostBlobs) /\ log[i][r].n = k

SomeOk(i, ep) == \E r \in 1..Len(log[i]) : OkAt(i, r, ep)

\* the calls create-repository issues after the create call for n files, as
\* the answers of the forge recorded in the log of i determine them
CallsForAnswers(i, n) ==
    (IF SomeOk(i, PostUserRepos) \/ SomeOk(i, PostOrgRepos) THEN <<GetRef>> ELSE <<>>)
    \o (IF SomeOk(i, GetRef) THEN [k \in 1..n |-> PostBlobs] ELSE <<>>)
    \o (IF SomeOk(i, GetRef) /\ AllBlobsOk(i, n) THEN <<GetTree>> ELSE <<>>)
    \o (IF SomeOk(i, GetTree) THEN <<PostTrees>> ELSE <<>>)
    \o (IF SomeOk(i, PostTrees) THEN <<PostCommits>> ELSE <<>>)
    \o (IF SomeOk(i, PostCommits) THEN <<PatchRef>> ELSE <<>>)

\* C14: in create-repository with a non-empty list of files, the calls issued
\* after the create call are those the list of files and the answers of the
\* forge determine, whatever the initializeWithReadme flag: the same answers
\* give the same sequence of calls for true and for false, through update-ref
\* when every call succeeds.
C14_FilesRunThroughUpdateRef ==
    \A i \in Invocations :
        (/\ Is(i, "create-repository")
         /\ args[i].files # Absent /\ Len(args[i].files[1]) >= 1)
        => /\ Tail(IssuedEps(log[i])) = CallsForAnswers(i, Len(args[i].files[1]))
           /\ \A k \in AllIssues(i) \ {1} : "auto_init" \notin DOMAIN log[i][k].params
           /\ (Returned(i) /\ NoFailure(i)) => OkAt(i, Len(log[i]), PatchRef)

C14_Witness ==
    \E i \in Invocations :
        /\ Is(i, "create-repository") /\ Returned(i)
        /\ args[i].files # Absent /\ Len(args[i].files[1]) >= 1
        /\ args[i].initializeWithReadme = FALSE
        /\ OkAt(i, Len(log[i]), PatchRef)

NoFilesRequested(i) == args[i].files = Absent \/ Len(args[i].files[1]) = 0

\* after a successful create call the workflow is done at once when quick
\* holds, and otherwise goes on to fetch-ref
DoneOrFetchRef(i, quick) ==
    (Is(i, "create-repository") /\ (OkAt(i, 2, PostUserRepos) \/ OkAt(i, 2, PostOrgRepos)))
    => IF quick
       THEN Returned(i) /\ Len(log[i]) = 2 /\ ~Flagged(Result(i))
       ELSE Len(log[i]) >= 3 /\ log[i][3].ev = "issue" /\ log[i][3].ep = GetRef

\* C15 (as claimed): after the create call succeeds, the workflow is done at
\* once exactly when no files are requested and initializeWithReadme is true;
\* in every other case it goes on to fetch-ref.
C15_DoneOnlyIfNoFilesAndReadme ==
    \A i \in Invocations :
        DoneOrFetchRef(i, NoFilesRequested(i) /\ args[i].initializeWithReadme)

\* C15 (amended): after the create call succeeds, the workflow is done at
\* once exactly when no files are requested, whatever initializeWithReadme
\* is; it goes on to fetch-ref exactly when the list of files is not empty.
C15_DoneIfNoFiles ==
    \A i \in Invocations : DoneOrFetchRef(i, NoFilesRequested(i))

C15_Witness ==
    \E i \in Invocations :
        /\ Is(i, "create-repository") /\ Returned(i) /\ Len(log[i]) = 2
        /\ OkAt(i, 2, log[i][1].ep)
        /\ args[i].files = Some(<<>>) /\ args[i].initializeWithReadme = FALSE

\* exactly one create call is issued, the first call of the invocation
OneCreateCall(i) ==
    /\ IssuesOf(i, PostUserRepos) \cup IssuesOf(i, PostOrgRepos) = {1}
    /\ IssuesOf(i, PostUserRepos) \cap IssuesOf(i, PostOrgRepos) = {}

\* C16 (as claimed): create-repository issues exactly one of the two create
\* calls: the call under the authenticated user when owner is absent, the call
\* under the organization, with that owner, when owner is present with any
\* supplied value.
C16_CreateCallByPresence ==
    \A i \in Invocations :
        Is(i, "create-repository")
        => /\ OneCreateCall(i)
           /\ args[i].owner = Absent => log[i][1].ep = PostUserRepos
           /\ args[i].owner # Absent =>
                 log[i][1].ep = PostOrgRepos /\ log[i][1].params.org = args[i].owner[1]

\* C16 (amended): create-repository issues exactly one of the two create
\* calls: the call under the authenticated user when owner is absent or the
\* empty string, the call under the organization, with that owner, when owner
\* is a non-empty string.
C16_CreateCallByTruthiness ==
    \A i \in Invocations :
        Is(i, "create-repository")
        => /\ OneCreateCall(i)
           /\ args[i].owner \in {Absent, Some("")} =>
                 log[i][1].ep = PostUserRepos /\ "org" \notin DOMAIN log[i][1].params
           /\ args[i].owner \notin {Absent, Some("")} =>
                 log[i][1].ep = PostOrgRepos /\ log[i][1].params.org = args[i].owner[1]

C16_Witness ==
    \E i \in Invocations :
        /\ Is(i, "create-repository") /\ args[i].owner = Some("org")
        /\ IssuesOf(i, PostOrgRepos) = {1} /\ Returned(i)

(* ------------------------------- every handler ------------------------ *)

\* C17: for every tool and every outcome (success, informational, or a failure
\* of any remote call) the returned envelope contains at least one content
\* block, a text block whose text is not empty; a handler that has returned
\* has returned an envelope.
C17_EnvelopeHasContent ==
    \A i \in Invocations :
        /\ pc[i] = "done" <=> env[i] # Absent
        /\ env[i] # Absent =>
              /\ Len(Result(i).content) >= 1
              /\ \A b \in 1..Len(Result(i).content) :
                    /\ Result(i).content[b].type = "text"
                    /\ Len(Result(i).content[b].text) >= 1

C17_Witness ==
    \E i \in Invocations :
        /\ Is(i, "merge-pr") /\ Returned(i) /\ Flagged(Result(i))
        /\ ErrAt(i, Len(log[i]), PutMerge)

\* the failure that the handler of i awaited: the first in its log
FirstFailure(i) ==
    CHOOSE e \in 1..Len(log[i]) :
        /\ log[i][e].ev = "err"
        /\ \A k \in 1..(e - 1) : log[i][k].ev # "err"

\* C18 (as claimed): every handler catches every failure of its own remote
\* calls and returns an envelope flagged as an error, except in the
\* informational cases, the 404 of the existence probe of delete-repository
\* and the unmergeable PR of merge-pr, whose envelopes are not flagged.
C18_FailuresFlaggedExceptInformational ==
    \A i \in Invocations :
        /\ ~NoFailure(i) =>
              /\ Returned(i)
              /\ LET f == log[i][FirstFailure(i)] IN
                 IF Is(i, "delete-repository") /\ f.ep = GetRepo /\ f.status = 404
                 THEN ~Flagged(Result(i))
                 ELSE Flagged(Result(i))
        /\ (Is(i, "merge-pr") /\ Returned(i) /\ NoFailure(i)) => ~Flagged(Result(i))

HasPart(text, p) == \E n \in 1..Len(text) : text[n] = p

AuthHint(s) ==
    IF s = 401 THEN "Authentication failed. Check your GitHub token."
    ELSE ". Make sure your GitHub token has the necessary permissions."

\* C19 (as claimed): in every handler, a remote call that fails with status
\* 401 or 403 is rendered with a targeted authorization hint rather than with
\* the raw error message.
C19_AuthHintEverywhere ==
    \A i \in Invocations :
        (~NoFailure(i) /\ log[i][FirstFailure(i)].status \in {401, 403})
        => LET st == log[i][FirstFailure(i)].status IN
           /\ Returned(i)
           /\ HasPart(ResultText(i), AuthHint(st))
           /\ ~HasPart(ResultText(i), ErrMessage(st))

\* C19 (amended): in delete-repository, a remote call (the probe or the
\* delete call) that fails with status 401 or 403 is rendered with a targeted
\* authorization hint and without the raw error message; in every other
\* handler a failure of any status, 401 and 403 included, is rendered with the
\* raw error message and no hint.
C19_AuthHintInDeleteOnly ==
    \A i \in Invocations :
        ~NoFailure(i)
        => LET st == log[i][FirstFailure(i)].status
               text == ResultText(i)
           IN /\ Returned(i)
              /\ (Is(i, "delete-repository") /\ st \in {401, 403}) =>
                    /\ HasPart(text, AuthHint(st))
                    /\ ~HasPart(text, ErrMessage(st))
              /\ ~Is(i, "delete-repository") =>
                    /\ text[Len(text)] = ErrMessage(st)
                    /\ \A h \in {401, 403} : ~HasPart(text, AuthHint(h))

C19_Witness ==
    \E i \in Invocations :
        /\ Is(i, "delete-repository") /\ Returned(i)
        /\ ErrAt(i, Len(log[i]), DeleteRepo) /\ log[i][Len(log[i])].status = 403

(* ------------------------- discuss-pr and list-prs --------------------- *)

\* the forge gave invocations i and j the same answer to their first call
SameAnswer(i, j) ==
    /\ Len(log[i]) >= 2 /\ Len(log[j]) >= 2
    /\ log[i][2].ev = log[j][2].ev
    /\ log[i][2].ev = "err" => log[i][2].status = log[j][2].status
    /\ log[i][2].ev = "ok" => locals[i].response = locals[j].response

\* i is discuss-pr without a number, j is list-prs with state "open", on the
\* same repository, and both have returned on the same answer of the forge
BrowsePair(i, j) ==
    /\ Is(i, "discuss-pr") /\ args[i].prNumber = Absent
    /\ Is(j, "list-prs") /\ args[j].state = "open"
    /\ args[i].owner = args[j].owner /\ args[i].repo = args[j].repo
    /\ Returned(i) /\ Returned(j)
    /\ SameAnswer(i, j)

\* C20 (as claimed): for every forge response (any PR list, or a failure),
\* discuss-pr invoked without a number issues the same remote call and returns
\* the same envelope, content and error flag, as list-prs invoked with state
\* "open" on the same owner and repo.
C20_DiscussWithoutNumberIsListOpen ==
    \A i, j \in Invocations :
        BrowsePair(i, j)
        => /\ log[i][1].ep = log[j][1].ep
           /\ log[i][1].params = log[j][1].params
           /\ Flagged(Result(i)) <=> Flagged(Result(j))
           /\ Len(ResultText(i)) = Len(ResultText(j))
           /\ ResultText(i) = ResultText(j)

(* --------------------------------- list-prs ---------------------------- *)

\* C21 (as claimed): list-prs never errors on an empty result: when the forge
\* returns zero pull requests the envelope is not flagged as an error and
\* renders an explicit "no PRs" text rather than the rendering of an empty
\* list; a non-empty result is rendered entry by entry in the order returned by
\* the forge.
C21_ListPrsEmptyTextAndOrder ==
    \A i \in Invocations :
        (Is(i, "list-prs") /\ Returned(i) /\ NoFailure(i))
        => LET data == locals[i].response.data
               last == ResultText(i)[Len(ResultText(i))]
           IN /\ ~Flagged(Result(i))
              /\ data = <<>> => last # Json(<<>>)
              /\ data # <<>> =>
                    /\ Len(last.json) = Len(data)
                    /\ \A k \in 1..Len(data) : last.json[k].number = data[k].number

(* ------------------------------- summarize-pr -------------------------- *)

\* the sum of a field over a list of files, first file first
RECURSIVE Total(_, _)
Total(files, field) ==
    IF files = <<>> THEN 0 ELSE Head(files)[field] + Total(Tail(files), field)

\* [k |-> files[k][field]]
FieldOf(files, field) == [k \in 1..Len(files) |-> files[k][field]]

\* C22: summarize-pr reports, for every returned file list, the number of files
\* as files changed, the sum of the per-file additions as total additions and
\* the sum of the per-file deletions as total deletions: additions 3, 5 and
\* deletions 1, 0 give 8 and 1, and an empty list gives 0, 0 and 0.
C22_SummaryTotals ==
    \A i \in Invocations :
        (Is(i, "summarize-pr") /\ Returned(i) /\ NoFailure(i))
        => LET files == locals[i].files
               text == ResultText(i)
           IN /\ SubSeq(text, 10, 16) =
                    <<"**Changes**: ", ToString(Len(files)), " files changed, ",
                      ToString(Total(files, "additions")), " additions, ",
                      ToString(Total(files, "deletions")), " deletions\n\n">>
              /\ (FieldOf(files, "additions") = <<3, 5>> /\ FieldOf(files, "deletions") = <<1, 0>>)
                    => text[11] = "2" /\ text[13] = "8" /\ text[15] = "1"
              /\ files = <<>> => text[11] = "0" /\ text[13] = "0" /\ text[15] = "0"

C22_Witness ==
    \E i \in Invocations :
        /\ Is(i, "summarize-pr") /\ Returned(i) /\ NoFailure(i)
        /\ FieldOf(locals[i].files, "additions") = <<3, 5>>
        /\ FieldOf(locals[i].files, "deletions") = <<1, 0>>

(* ------------------------------ truncation ----------------------------- *)

\* a text cut at cap characters: above the cap its first cap characters and
\* the ellipsis marker, up to the cap the text itself
Rendered(s, cap) == IF Len(s) > cap THEN SubSeq(s, 1, cap) \o <<"...">> ELSE s

\* the parts x occur in text, one after the other
Contains(text, x) ==
    \E st \in 1..(Len(text) - Len(x) + 1) : SubSeq(text, st, st + Len(x) - 1) = x

\* C23: the preview of comment-on-pr (cap 50) and the diff excerpt of
\* summarize-pr (cap 300) render a text longer than the cap as exactly its
\* first cap characters followed by the ellipsis marker, and a text of at most
\* cap characters (exactly cap included) unmodified, with no ellipsis.
C23_PreviewTruncation ==
    \A i \in Invocations :
        /\ (Is(i, "comment-on-pr") /\ Returned(i) /\ NoFailure(i))
           => ResultText(i) =
                 <<"Comment posted on PR #", ToString(args[i].prNumber), ": \"">>
                 \o Rendered(args[i].comment, 50) \o <<"\"">>
        /\ (Is(i, "summarize-pr") /\ Returned(i) /\ NoFailure(i))
           => \A k \in 1..Len(locals[i].files) :
                 LET patch == locals[i].files[k].patch IN
                 (patch # Absent /\ patch[1] # <<>>)
                 => Contains(ResultText(i),
                             <<"diff-fence\n">> \o Rendered(patch[1], 300) \o <<"\nfence\n">>)

C23_Witness ==
    \E i \in Invocations :
        /\ Is(i, "comment-on-pr") /\ Returned(i) /\ NoFailure(i)
        /\ Len(args[i].comment) = 60
        /\ Len(ResultText(i)) = 3 + 50 + 1 + 1

(* ---------------------------- request-reviewers ------------------------ *)

\* C24 (as claimed): request-reviewers runs only with a non-empty list of
\* reviewer handles, an empty list never reaches the remote call; it issues
\* exactly one requested-reviewers call, carrying all the handles, and its
\* success envelope names the count and the handles requested.
C24_ReviewersNonEmptyOneCall ==
    \A i \in Invocations :
        (Is(i, "request-reviewers") /\ pc[i] # "idle")
        => /\ IssuesOf(i, PostReviewers) # {} => args[i].reviewers # <<>>
           /\ args[i].reviewers # <<>> =>
                 /\ Cardinality(IssuesOf(i, PostReviewers)) = 1
                 /\ AllIssues(i) = IssuesOf(i, PostReviewers)
                 /\ \A k \in IssuesOf(i, PostReviewers) :
                       log[i][k].params.reviewers = args[i].reviewers
           /\ (Returned(i) /\ NoFailure(i)) =>
                 /\ ~Flagged(Result(i))
                 /\ ResultText(i)[2] = ToString(Len(args[i].reviewers))
                 /\ \A r \in 1..Len(args[i].reviewers) :
                       HasPart(ResultText(i), args[i].reviewers[r])

(* -------------------------------- dispatch ----------------------------- *)

\* the names of the tool surface
ToolSurface == {Registrations[k] : k \in 1..Len(Registrations)}

\* the suspension points of the handler registered under a name
LabelsOf(t) ==
    CASE t = "discuss-pr" -> {"discuss:list", "discuss:fetch"}
      [] t = "list-prs" -> {"list:fetch"}
      [] t = "comment-on-pr" -> {"comment:post"}
      [] t = "request-reviewers" -> {"reviewers:post"}
      [] t = "merge-pr" -> {"merge:fetch", "merge:merge"}
      [] t = "summarize-pr" -> {"summarize:fetch", "summarize:files"}
      [] t = "close-pr" -> {"close:fetch", "close:patch", "close:comment"}
      [] t = "create-repository" ->
            {"create:repo", "create:ref", "create:blobs", "create:tree",
             "create:newtree", "create:commit", "create:updateref"}
      [] t = "delete-repository" -> {"delete:probe", "delete:delete"}
      [] OTHER -> {}

\* the first call of the handler registered under a name
EntryOf(t) ==
    CASE t = "discuss-pr" -> {GetPulls, GetPull}
      [] t = "list-prs" -> {GetPulls}
      [] t = "comment-on-pr" -> {PostComment}
      [] t = "request-reviewers" -> {PostReviewers}
      [] t \in {"merge-pr", "summarize-pr", "close-pr"} -> {GetPull}
      [] t = "create-repository" -> CreateCalls
      [] t = "delete-repository" -> {GetRepo}
      [] OTHER -> {}

C26_ReadmeCommandsRegistered ==
    /\ \A c \in ReadmeCommands : HandlersOf(c) # {}
    /\ \A i \in Invocations : tool[i] \in ReadmeCommands => pc[i] # "rejected"

(* ----------------------- sequential calls, no retries ------------------ *)

\* the call issued at position j of the log of i is answered before position k
AnsweredBefore(i, j, k) ==
    \E r \in (j + 1)..(k - 1) :
        /\ log[i][r].ev \in {"ok", "err"}
        /\ log[i][r].ep = log[i][j].ep /\ log[i][r].n = log[i][j].n

\* C27: in every handler, apart from the blob-creation step of
\* create-repository, at most one remote call is outstanding at any time: each
\* call is issued only after the previous call of the same invocation has
\* returned its response or its error.
C27_OneCallOutstanding ==
    \A i \in Invocations :
        /\ (\A c \in pending[i] : c[1] # PostBlobs) => Cardinality(pending[i]) <= 1
        /\ \A j, k \in AllIssues(i) :
              (j < k /\ ~(log[i][j].ep = PostBlobs /\ log[i][k].ep = PostBlobs))
              => AnsweredBefore(i, j, k)

C27_Witness ==
    \E i \in Invocations :
        /\ Is(i, "summarize-pr") /\ pc[i] = "summarize:files"
        /\ pending[i] = {<<GetPullFiles, 0>>}
        /\ Cardinality(AllIssues(i)) = 2

\* the number of input files of create-repository, 0 when files is not given
FileCount(i) ==
    IF Is(i, "create-repository") /\ args[i].files # Absent THEN Len(args[i].files[1]) ELSE 0

\* C28: no retries: within one invocation of any tool each remote endpoint is
\* called at most once, blob creation at most once per input file, also after
\* a failure: a call that has failed is never issued again.
C28_NoRetries ==
    \A i \in Invocations :
        /\ \A j, k \in AllIssues(i) :
              (log[i][j].ep = log[i][k].ep /\ log[i][j].n = log[i][k].n) => j = k
        /\ \A k \in AllIssues(i) : log[i][k].ep # PostBlobs => log[i][k].n = 0
        /\ \A k \in IssuesOf(i, PostBlobs) : log[i][k].n \in 1..FileCount(i)
        /\ \A e \in 1..Len(log[i]) :
              log[i][e].ev = "err" =>
                 \A k \in AllIssues(i) : k > e => log[i][k].ep # log[i][e].ep

C28_Witness ==
    \E i \in Invocations :
        /\ Is(i, "merge-pr") /\ Returned(i)
        /\ ErrAt(i, Len(log[i]), PutMerge)
        /\ Cardinality(IssuesOf(i, PutMerge)) = 1

(* --------------------------- concurrent invocations -------------------- *)

\* what belongs to invocation j
Own(j) == <<pc[j], tool[j], args[j], locals[j], log[j], pending[j], env[j]>>

\* the answers of the forge that invocation i has received, in order
RECURSIVE AnswersOf(_)
AnswersOf(l) ==
    IF l = <<>> THEN <<>>
    ELSE (IF Head(l).ev = "issue" THEN <<>> ELSE <<Head(l)>>) \o AnswersOf(Tail(l))

\* invocations with the same tool, arguments and answers are at the same
\* point, have issued the same calls and have returned the same envelope
SameInputsSameRun ==
    \A i, j \in Invocations :
        (/\ tool[i] = tool[j] /\ args[i] = args[j]
         /\ AnswersOf(log[i]) = AnswersOf(log[j]) /\ locals[i] = locals[j])
        => Own(i) = Own(j)

\* what an invocation renders and sends is made of its own arguments and of
\* the answers it has itself received
OwnData ==
    \A i \in Invocations :
        /\ (Is(i, "summarize-pr") /\ Returned(i) /\ NoFailure(i))
           => ResultText(i) = SummaryText(args[i].prNumber, locals[i].pr, locals[i].files)
        /\ (Is(i, "list-prs") /\ Returned(i) /\ NoFailure(i))
           => ResultText(i) = ListPrsText(args[i], locals[i].response.data)
        /\ (Is(i, "merge-pr") /\ Fetched(i))
           => /\ IssuesOf(i, PutMerge) # {} <=> ~NotMergeable(locals[i].prResponse.data)
              /\ \A k \in IssuesOf(i, PutMerge) : log[i][k].params = MergeParams(args[i])
        /\ Is(i, "delete-repository")
           => (AllIssues(i) # {} <=> args[i].confirmation)

\* a step changes what belongs to one invocation and nothing of any other
OneInvocationSteps ==
    \E i \in Invocations : \A j \in Invocations \ {i} : Own(j)' = Own(j)

\* C29: tool invocations share no state: in every interleaving of two
\* concurrent invocations each step touches one invocation only, and the calls
\* an invocation issues and the envelope it returns are those of its own
\* arguments and of the answers it has received, the same as for any
\* invocation with these arguments and answers.
C29_NoSharedState == [](SameInputsSameRun /\ OwnData) /\ [][OneInvocationSteps]_vars

C29_Witness ==
    \E i, j \in Invocations :
        /\ i # j
        /\ Is(i, "summarize-pr") /\ Returned(i) /\ NoFailure(i)
        /\ Is(j, "summarize-pr") /\ Returned(j) /\ NoFailure(j)
        /\ locals[i].pr # locals[j].pr
        /\ ResultText(i) # ResultText(j)

(* ------------------------------- termination -------------------------- *)

\* C30: every tool invocation eventually returns an envelope, provided every
\* remote call it issues eventually returns a response or an error: a handler
\* that has begun runs to its return, there is no state in which it waits
\* forever.
C30_EventuallyReturns ==
    \A i \in Invocations : (pc[i] \notin {"idle", "rejected"}) ~> Returned(i)

C30_Witness ==
    \E i \in Invocations :
        /\ Is(i, "create-repository") /\ Returned(i)
        /\ OkAt(i, Len(log[i]), PatchRef)

(* ------------------- create-repository: values between steps ----------- *)

\* the position in the log of i where the blob call of the n-th file is issued
BlobIssueOf(i, n) == CHOOSE b \in IssuesOf(i, PostBlobs) : log[i][b].n = n

\* C31: in create-repository with files the values passed between the steps
\* are the outputs of the previous steps: the n-th tree entry pairs the path of
\* the n-th input file with the sha returned by the blob creation of that file,
\* in whatever order the blob answers arrive; the tree is created on the tree
\* sha returned by fetch-tree; the commit has the sha of the new tree and the
\* fetched head sha as its only parent; update-ref points the default branch
\* at the sha of the new commit.
C31_StepOutputsFeedNextSteps ==
    \A i \in Invocations :
        Is(i, "create-repository")
        => /\ \A t \in IssuesOf(i, PostTrees) :
                 LET p == log[i][t].params
                     files == args[i].files[1]
                 IN /\ Len(p.tree) = Len(files)
                    /\ \A n \in 1..Len(files) :
                          /\ p.tree[n].path = files[n].path
                          /\ log[i][BlobIssueOf(i, n)].params.content = files[n].content
                          /\ p.tree[n].sha = BlobSha(log[i][BlobIssueOf(i, n)].params.content)
                    /\ p.base_tree = BaseTreeSha
           /\ \A c \in IssuesOf(i, PostCommits) :
                 /\ log[i][c].params.tree = NewTreeSha
                 /\ log[i][c].params.parents = <<HeadSha>>
           /\ \A u \in IssuesOf(i, PatchRef) :
                 /\ log[i][u].params.sha = NewCommitSha
                 /\ log[i][u].params.ref = <<"heads/", locals[i].repoData.default_branch>>

\* the blob answers arrived in another order than the files, and the workflow
\* went through to update-ref
C31_Witness ==
    \E i \in Invocations :
        /\ Is(i, "create-repository") /\ Returned(i)
        /\ \E r \in 1..Len(log[i]) : OkAt(i, r, PatchRef)
        /\ \E q, r \in 1..Len(log[i]) :
              /\ q < r /\ OkAt(i, q, PostBlobs) /\ OkAt(i, r, PostBlobs)
              /\ log[i][q].n > log[i][r].n

(* ------------------------ merge-pr: check and merge -------------------- *)

\* C32: the mergeable check and the merge call of merge-pr are not atomic:
\* each invocation fetches the PR once and issues its merge call on that single
\* snapshot, whatever another invocation has done to the PR since (two
\* concurrent invocations that both read mergeable = true both issue the merge
\* call); it does not fetch again, and an invocation whose merge call the forge
\* rejects returns an envelope flagged as an error without issuing the call
\* again.
C32_MergeTrustsSnapshot ==
    \A i \in Invocations :
        Is(i, "merge-pr")
        => /\ Cardinality(IssuesOf(i, GetPull)) = 1
           /\ Cardinality(IssuesOf(i, PutMerge)) <= 1
           /\ Fetched(i) =>
                 (IssuesOf(i, PutMerge) # {} <=> TruthyBool(locals[i].prResponse.data.mergeable))
           /\ ErrorsOf(i, PutMerge) # {} =>
                 /\ Returned(i) /\ Flagged(Result(i))
                 /\ ResultText(i)[1] = "Error merging PR: "
                 /\ \A k \in AllIssues(i) : \A e \in ErrorsOf(i, PutMerge) : k < e

\* both invocations read mergeable = true and both issued the merge call: the
\* forge accepted one and rejected the other
C32_Witness ==
    \E i, j \in Invocations :
        /\ i # j
        /\ Is(i, "merge-pr") /\ Is(j, "merge-pr")
        /\ Fetched(i) /\ TruthyBool(locals[i].prResponse.data.mergeable)
        /\ Fetched(j) /\ TruthyBool(locals[j].prResponse.data.mergeable)
        /\ Returned(i) /\ OkAt(i, Len(log[i]), PutMerge) /\ ~Flagged(Result(i))
        /\ Returned(j) /\ ErrAt(j, Len(log[j]), PutMerge) /\ Flagged(Result(j))

(* --------------------------- discuss-pr: the query --------------------- *)

\* i is discuss-pr invoked with a number
DetailMode(i) == Is(i, "discuss-pr") /\ args[i].prNumber # Absent

\* the last part of the text that i returned: the detail, or the error message
LastPart(i) == ResultText(i)[Len(ResultText(i))]

\* C33: discuss-pr with a number present issues exactly one call, the fetch of
\* that single pull, and no list call; the query is not sent anywhere: the call
\* carries owner, repo and the number only, so two invocations that differ
\* only in the query issue identical calls; the query affects only the text
\* returned on success, where it is echoed before the same detail.
C33_QueryNotSent ==
    /\ \A i \in Invocations :
          DetailMode(i)
          => /\ AllIssues(i) = {1} /\ IssuesOf(i, GetPulls) = {}
             /\ log[i][1].ep = GetPull
             /\ log[i][1].params = [owner |-> args[i].owner, repo |-> args[i].repo,
                                    pull_number |-> args[i].prNumber[1]]
             /\ (Returned(i) /\ NoFailure(i)) =>
                   /\ ~Flagged(Result(i))
                   /\ LastPart(i) = Json(PrDetails(locals[i].response.data))
                   /\ TruthyStr(args[i].query) => ResultText(i)[4] = args[i].query[1]
             /\ (Returned(i) /\ ~NoFailure(i)) =>
                   /\ Flagged(Result(i))
                   /\ TruthyStr(args[i].query) => ~HasPart(ResultText(i), args[i].query[1])
                   /\ LastPart(i) = ErrMessage(log[i][2].status)
    /\ \A i, j \in Invocations :
          (/\ DetailMode(i) /\ DetailMode(j)
           /\ [args[i] EXCEPT !.query = Absent] = [args[j] EXCEPT !.query = Absent])
          => /\ log[i][1] = log[j][1]
             /\ (Returned(i) /\ Returned(j) /\ SameAnswer(i, j)) =>
                   /\ Flagged(Result(i)) <=> Flagged(Result(j))
                   /\ LastPart(i) = LastPart(j)

C33_Witness ==
    \E i, j \in Invocations :
        /\ DetailMode(i) /\ DetailMode(j)
        /\ args[i].prNumber = args[j].prNumber
        /\ args[i].query = Some("q") /\ args[j].query = Absent
        /\ Returned(i) /\ Returned(j) /\ NoFailure(i) /\ SameAnswer(i, j)
        /\ log[i][1] = log[j][1]
        /\ Len(ResultText(i)) # Len(ResultText(j))

(* ------------------ delete-repository: the failed probe ---------------- *)

\* C34: in delete-repository with confirmation = true only a 404 of the
\* existence probe is special-cased at the probe, where the "does not exist"
\* envelope is returned; a probe failure with any other status, 401 included,
\* is rethrown to the generic catch of the handler, which renders it as it
\* renders that status for any call: no delete call is issued and an envelope
\* flagged as an error is returned.
C34_ProbeFailureRethrown ==
    \A i \in Invocations :
        (Is(i, "delete-repository") /\ ErrorsOf(i, GetRepo) # {})
        => LET st == log[i][2].status
               text == ResultText(i)
           IN /\ args[i].confirmation
              /\ AllIssues(i) = {1} /\ IssuesOf(i, DeleteRepo) = {}
              /\ Returned(i)
              /\ st = 404 =>
                    text = <<"Repository ", args[i].owner, "/", args[i].repo,
                             " does not exist or you don't have access to it.">>
              /\ st # 404 => Flagged(Result(i))
              /\ st = 401 => text = <<"Authentication failed. Check your GitHub token.">>
              /\ st = 403 =>
                    text = <<"You don't have permission to delete the repository ",
                             args[i].owner, "/", args[i].repo,
                             ". Make sure your GitHub token has the necessary permissions.">>
              /\ st \notin {401, 403, 404} =>
                    text = <<"Error deleting repository: ", ErrMessage(st)>>

C34_Witness ==
    \E i \in Invocations :
        /\ Is(i, "delete-repository") /\ Returned(i) /\ Flagged(Result(i))
        /\ ErrAt(i, 2, GetRepo) /\ log[i][2].status = 401
        /\ IssuesOf(i, DeleteRepo) = {}

====
